---- MODULE Spec2Model ----
(***************************************************************************)
(* Model of the real-time pipeline of the quant analytics backend:         *)
(*   - utils/helpers.py      resample_to_ohlcv and the timeframe tables    *)
(*   - core/data_manager.py  DataManager: tick buffers and the OHLCV cache *)
(*   - core/websocket_client.py  BinanceWebSocketClient._listen and the    *)
(*                               WebSocketManager                          *)
(*   - core/alerts_engine.py AlertsEngine: rules, history, monitoring loop *)
(*   - core/analytics.py     AnalyticsEngine: the pair analytics           *)
(*   - tasks/analytics_processor.py  AnalyticsProcessor: the periodic pass *)
(*                                                                         *)
(* Floats are modelled by integers; NaN is a distinguished value whose     *)
(* comparisons are all false (IEEE 754).  A timestamp is the number of     *)
(* whole seconds since midnight UTC; the ISO strings the stream client     *)
(* produces (websocket_client.py:165) and the ones resample_to_ohlcv       *)
(* produces (helpers.py:93) share one rendering, for which the string      *)
(* order the code uses is the order of the instants.                       *)
(***************************************************************************)
EXTENDS Integers, Sequences, FiniteSets, TLC

VARIABLES
    \* ---- resample_to_ohlcv applied to one input (helpers.py) ----
    rs_ticks,        \* the list of ticks handed to resample_to_ohlcv
    rs_rule,         \* the pandas rule handed to it
    rs_out,          \* the candles it returned
    rs_done,         \* whether it has run
    \* ---- DataManager (core/data_manager.py) ----
    tick_buffers,    \* dict: symbol -> deque of ticks (a defaultdict: reading makes the key)
    tick_counts,     \* dict: symbol -> number of ticks added since the last clear
    last_tick_time,  \* dict: symbol -> time of the last add_tick
    ohlcv_cache,     \* dict: <<symbol, timeframe>> -> candles
    added,           \* history: symbol -> every tick added since the symbol was last cleared
    ret,             \* the last completed call: [op, value]
    loop_pc,         \* resample_loop: "sleep" or "exited"
    \* ---- BinanceWebSocketClient (core/websocket_client.py) ----
    is_running,      \* self.is_running
    reconnect_delay, \* self.reconnect_delay
    websocket,       \* self.websocket: "none", or the last connection, "open" or "closed"
    listen_pc,       \* the _listen task: "idle" (not created), "connecting", "connected",
                     \*   "sending" (connected, inside a handler's send to the frontends),
                     \*   "backoff" (in the sleep before a reconnection) or "done"
    cancelled,       \* task.cancel() was called and the task has not yet seen it
    disc_pc,         \* disconnect(): "idle", "closing", "closed", "awaiting" or "returned"
    slept,           \* history: the delays slept since the last established connection
    \* ---- DataManager calls running on several threads ----
    th,              \* thread -> the call it is in: its position, arguments and locals
    cache_src,       \* history: cache key -> the ticks its entry was resampled from
    \* ---- the stream client's message handlers (websocket_client.py, routes_stream.py) ----
    frontend_connections, \* routes_stream.frontend_connections: the set of frontend sockets
    msg_log,         \* history: what became of each message taken from the connection
    trades_in,       \* history: the ticks of the trade messages that parsed, as received
    db_ticks,        \* history: the insert_tick attempts, [tick, ok]
    tick_calls,      \* history: the ticks on_tick was invoked with
    ticker_calls,    \* history: the tickers on_ticker was invoked with
    \* ---- WebSocketManager (core/websocket_client.py) ----
    clients,         \* self.clients: symbol -> the client held for it (its index in made)
    made,            \* every client the manager constructed, in order: its symbol,
                     \*   is_running and whether its listen task has ended
    unsub,           \* caller -> the unsubscribe call it is in
    da,              \* the disconnect_all call: its position, its list of symbols, the
                     \*   clients held when it began, the unsubscribe calls it has
                     \*   started, and whether a subscribe made a client since it began
    \* ---- AlertsEngine (core/alerts_engine.py) ----
    alerts,          \* self.alerts: alert id -> Alert
    triggered_alerts, \* self.triggered_alerts
    callbacks,       \* self.callbacks
    is_monitoring,   \* self.is_monitoring
    mon,             \* monitor_alerts: its position and locals, the passes begun
                     \*   and the notifications constructed; history: the tasks
                     \*   created and not done, whether stop_monitoring has
                     \*   returned since the last start_monitoring, the rules
                     \*   active when the pass began and the rules it evaluated
    cb_log,          \* history: the callback invocations of the latest notification
    \* ---- AnalyticsProcessor (tasks/analytics_processor.py) ----
    latest_results,  \* self.latest_results: pair -> the stored result
    ap               \* self.running, the position of the _process_loop task, and
                     \*   history: the passes made and whether a computation of the
                     \*   last pass raised

rsVars == <<rs_ticks, rs_rule, rs_out, rs_done>>

dmVars == <<tick_buffers, tick_counts, last_tick_time, ohlcv_cache, added, ret, loop_pc>>

wsVars == <<is_running, reconnect_delay, websocket, listen_pc, cancelled, disc_pc, slept>>

thVars == <<th, cache_src>>

hdVars == <<frontend_connections, msg_log, trades_in, db_ticks, tick_calls, ticker_calls>>

mgVars == <<clients, made, unsub, da>>

alVars == <<alerts, triggered_alerts, callbacks, is_monitoring, mon, cb_log>>

apVars == <<latest_results, ap>>

\* the alerts engine and the analytics processor
engVars == <<alVars, apVars>>

\* the handlers, the manager, the alerts engine and the analytics processor
extVars == <<hdVars, mgVars, engVars>>

vars == <<rsVars, dmVars, wsVars, thVars, extVars>>

\* what the DataManager handlers leave alone
notDm == <<rsVars, wsVars, thVars, extVars>>

\* what the lifecycle steps of the stream client leave alone
notWs == <<dmVars, rsVars, thVars, extVars>>

-----------------------------------------------------------------------------
(* Values *)

\* python None, for optional arguments and results
None == -1

\* numpy.nan
NaN == -2

Max(S) == CHOOSE x \in S : \A y \in S : y <= x
Min(S) == CHOOSE x \in S : \A y \in S : x <= y

RECURSIVE SumSeq(_)
SumSeq(s) == IF s = <<>> THEN 0 ELSE Head(s) + SumSeq(Tail(s))

\* the ascending list of the members of a finite set of integers
RECURSIVE SortedSeq(_)
SortedSeq(S) == IF S = {} THEN <<>> ELSE <<Min(S)>> \o SortedSeq(S \ {Min(S)})

Symbols == {"BTCUSDT", "ETHUSDT"}

\* the members of a set of symbols as a list
RECURSIVE SortedSymbols(_)
SortedSymbols(S) ==
    IF S = {} THEN <<>>
    ELSE LET x == CHOOSE y \in S : TRUE IN <<x>> \o SortedSymbols(S \ {x})

-----------------------------------------------------------------------------
(* utils/helpers.py *)

\* timeframe_to_pandas_rule: unknown timeframes map to '1min'
timeframe_to_pandas_rule(tf) ==
    CASE tf = "1s" -> "1s"
      [] tf = "1m" -> "1min"
      [] tf = "5m" -> "5min"
      [] OTHER -> "1min"

\* the width in seconds of the bins pandas makes for a rule
RuleSeconds(rule) ==
    CASE rule = "1s" -> 1
      [] rule = "1min" -> 60
      [] rule = "5min" -> 300

\* the start of the bin a timestamp falls in (bins are anchored at midnight)
Bucket(ts, rule) == (ts \div RuleSeconds(rule)) * RuleSeconds(rule)

\* pandas sorts a non-monotonic index with a stable sort before binning
RECURSIVE InsertByTs(_, _)
InsertByTs(t, s) ==
    IF s = <<>> THEN <<t>>
    ELSE IF t.ts < Head(s).ts THEN <<t>> \o s
    ELSE <<Head(s)>> \o InsertByTs(t, Tail(s))

RECURSIVE SortByTs(_)
SortByTs(s) ==
    IF s = <<>> THEN <<>>
    ELSE InsertByTs(s[Len(s)], SortByTs(SubSeq(s, 1, Len(s) - 1)))

\* OhlcRow with close taken from the first tick of the bin
OhlcRowCloseFirst(sorted, rule, b) ==
    LET inb    == SelectSeq(sorted, LAMBDA t : Bucket(t.ts, rule) = b)
        prices == {inb[i].price : i \in DOMAIN inb}
    IN  [ts     |-> b,
         open   |-> inb[1].price,
         high   |-> Max(prices),
         low    |-> Min(prices),
         close  |-> inb[1].price,
         volume |-> SumSeq([i \in DOMAIN inb |-> inb[i].qty])]

\* df['price'].resample(rule).ohlc() and df['qty'].resample(rule).sum(min_count=1)
\* for one non-empty bin; empty bins are all-NaN rows that dropna(how='all') drops
OhlcRow(sorted, rule, b) ==
    LET inb    == SelectSeq(sorted, LAMBDA t : Bucket(t.ts, rule) = b)
        prices == {inb[i].price : i \in DOMAIN inb}
    IN  [ts     |-> b,
         open   |-> inb[1].price,
         high   |-> Max(prices),
         low    |-> Min(prices),
         close  |-> inb[Len(inb)].price,
         volume |-> SumSeq([i \in DOMAIN inb |-> inb[i].qty])]

\* replace(0, np.nan) on one value
ZeroToNaN(x) == IF x = 0 THEN NaN ELSE x

\* ffill() then bfill() of one column, at row i
FillAt(col, i) ==
    LET before == {j \in 1..i : col[j] # NaN}
        after  == {j \in i..Len(col) : col[j] # NaN}
    IN  IF before # {} THEN col[Max(before)]
        ELSE IF after # {} THEN col[Min(after)]
        ELSE NaN

\* max(axis=1) and min(axis=1) skip NaN and give NaN for an all-NaN row
RowMax(vals) == IF vals \ {NaN} = {} THEN NaN ELSE Max(vals \ {NaN})
RowMin(vals) == IF vals \ {NaN} = {} THEN NaN ELSE Min(vals \ {NaN})

resample_to_ohlcv(ticks, rule) ==
    IF ticks = <<>> THEN <<>>
    ELSE
    LET sorted  == SortByTs(ticks)
        starts  == SortedSeq({Bucket(ticks[i].ts, rule) : i \in DOMAIN ticks})
        raw     == [k \in DOMAIN starts |-> OhlcRow(sorted, rule, starts[k])]
        col(f)  == [k \in DOMAIN raw |-> ZeroToNaN(raw[k][f])]
        filled  == [k \in DOMAIN raw |->
                      [ts     |-> raw[k].ts,
                       open   |-> FillAt(col("open"), k),
                       high   |-> FillAt(col("high"), k),
                       low    |-> FillAt(col("low"), k),
                       close  |-> FillAt(col("close"), k),
                       volume |-> raw[k].volume]]
    IN  [k \in DOMAIN filled |->
           LET r  == filled[k]
               pc == {r.open, r.high, r.low, r.close}
           IN  [ts     |-> r.ts,
                open   |-> r.open,
                high   |-> RowMax(pc),
                low    |-> RowMin(pc),
                close  |-> r.close,
                volume |-> r.volume]]

-----------------------------------------------------------------------------
(* core/data_manager.py: DataManager *)

\* settings.tick_buffer_size, the maxlen of every deque
tick_buffer_size == 2

\* settings.resample_intervals_list
resample_intervals_list == <<"1s", "1m">>

Timeframes == {resample_intervals_list[i] : i \in DOMAIN resample_intervals_list}

\* symbols as callers write them, and normalize_symbol: strip().upper()
RawSymbols == Symbols \cup {" btcusdt"}

normalize_symbol(symbol) ==
    CASE symbol = " btcusdt" -> "BTCUSDT"
      [] symbol = " BTCUSDT" -> "BTCUSDT"
      [] OTHER -> symbol

\* d[k] of a defaultdict whose factory gives dflt: the value, and the dict after the read
Get(d, k, dflt) == IF k \in DOMAIN d THEN d[k] ELSE dflt
Put(d, k, v) == [x \in DOMAIN d \cup {k} |-> IF x = k THEN v ELSE d[x]]
Touch(d, k, dflt) == IF k \in DOMAIN d THEN d ELSE Put(d, k, dflt)
Drop(d, ks) == [x \in DOMAIN d \ ks |-> d[x]]

\* deque_append without the eviction of a full deque
deque_append_unbounded(buf, tick) == Append(buf, tick)

\* deque.append with maxlen: a full deque drops its leftmost item
deque_append(buf, tick) ==
    IF tick_buffer_size = 0 THEN <<>>
    ELSE IF Len(buf) < tick_buffer_size THEN Append(buf, tick)
    ELSE Append(Tail(buf), tick)

\* s[-n:] for n > 0
LastN(s, n) == IF n >= Len(s) THEN s ELSE SubSeq(s, Len(s) - n + 1, Len(s))

\* python truth of an optional int: None and 0 are false
Truthy(x) == x # None /\ x # 0

\* what get_ticks returns from the list copied out of the deque
filter_ticks(ticks, limit, from_ts, to_ts) ==
    LET t1 == IF from_ts # None
              THEN SelectSeq(ticks, LAMBDA t : t.ts >= from_ts) ELSE ticks
        t2 == IF to_ts # None
              THEN SelectSeq(t1, LAMBDA t : t.ts <= to_ts) ELSE t1
    IN  IF Truthy(limit) THEN LastN(t2, limit) ELSE t2

\* the filters get_ohlcv applies to the candles, cached or fresh
filter_candles(df, limit, from_ts, to_ts) ==
    LET d1 == IF from_ts # None
              THEN SelectSeq(df, LAMBDA c : c.ts >= from_ts) ELSE df
        d2 == IF to_ts # None
              THEN SelectSeq(d1, LAMBDA c : c.ts <= to_ts) ELSE d1
    IN  IF Truthy(limit) THEN LastN(d2, limit) ELSE d2

\* the ticks get_ohlcv resamples on a miss or a forced refresh
ohlcv_source_ticks(bufs, sym, from_ts, to_ts) ==
    filter_ticks(Get(bufs, sym, <<>>), None, from_ts, to_ts)

\* get_ohlcv returning a cached entry without the caller's filters
get_ohlcv_hit_unfiltered(bufs, cache, symbol, timeframe, limit, from_ts, to_ts, force_resample) ==
    LET sym   == normalize_symbol(symbol)
        key   == <<sym, timeframe>>
        ticks == ohlcv_source_ticks(bufs, sym, from_ts, to_ts)
        fresh == resample_to_ohlcv(ticks, timeframe_to_pandas_rule(timeframe))
    IN  IF ~force_resample /\ key \in DOMAIN cache
        THEN [bufs |-> bufs, cache |-> cache, result |-> cache[key]]
        ELSE IF ticks = <<>>
        THEN [bufs |-> Touch(bufs, sym, <<>>), cache |-> cache, result |-> <<>>]
        ELSE [bufs   |-> Touch(bufs, sym, <<>>),
              cache  |-> Put(cache, key, fresh),
              result |-> filter_candles(fresh, limit, from_ts, to_ts)]

\* get_ohlcv that rebuilds the candles from the buffer even when an entry exists
get_ohlcv_always_resamples(bufs, cache, symbol, timeframe, limit, from_ts, to_ts, force_resample) ==
    LET sym   == normalize_symbol(symbol)
        key   == <<sym, timeframe>>
        ticks == ohlcv_source_ticks(bufs, sym, from_ts, to_ts)
        fresh == resample_to_ohlcv(ticks, timeframe_to_pandas_rule(timeframe))
    IN  IF ticks = <<>>
        THEN [bufs |-> Touch(bufs, sym, <<>>), cache |-> cache, result |-> <<>>]
        ELSE [bufs   |-> Touch(bufs, sym, <<>>),
              cache  |-> Put(cache, key, fresh),
              result |-> filter_candles(fresh, limit, from_ts, to_ts)]

\* get_ohlcv: the buffers, the cache and the returned candles after the call
get_ohlcv(bufs, cache, symbol, timeframe, limit, from_ts, to_ts, force_resample) ==
    LET sym   == normalize_symbol(symbol)
        key   == <<sym, timeframe>>
        ticks == ohlcv_source_ticks(bufs, sym, from_ts, to_ts)
        fresh == resample_to_ohlcv(ticks, timeframe_to_pandas_rule(timeframe))
    IN  IF ~force_resample /\ key \in DOMAIN cache
        THEN [bufs   |-> bufs,
              cache  |-> cache,
              result |-> filter_candles(cache[key], limit, from_ts, to_ts)]
        ELSE IF ticks = <<>>
        THEN [bufs |-> Touch(bufs, sym, <<>>), cache |-> cache, result |-> <<>>]
        ELSE [bufs   |-> Touch(bufs, sym, <<>>),
              cache  |-> Put(cache, key, fresh),
              result |-> filter_candles(fresh, limit, from_ts, to_ts)]

\* the close column of a candle list, indexed by ts
CloseSeries(df) == [k \in DOMAIN df |-> [ts |-> df[k].ts, close |-> df[k].close]]

\* get_price_series: the buffers, the cache and the returned series after the call
get_price_series(bufs, cache, symbol, timeframe, limit, force_resample) ==
    LET sym   == normalize_symbol(symbol)
        key   == <<sym, timeframe>>
        ticks == Get(bufs, sym, <<>>)
        fresh == resample_to_ohlcv(ticks, timeframe_to_pandas_rule(timeframe))
        tail(df) == IF Truthy(limit) THEN LastN(df, limit) ELSE df
    IN  IF ~force_resample /\ key \in DOMAIN cache
        THEN [bufs |-> bufs, cache |-> cache, result |-> CloseSeries(tail(cache[key]))]
        ELSE IF ticks = <<>> \/ fresh = <<>>
        THEN [bufs |-> Touch(bufs, sym, <<>>), cache |-> cache, result |-> <<>>]
        ELSE [bufs   |-> Touch(bufs, sym, <<>>),
              cache  |-> Put(cache, key, fresh),
              result |-> CloseSeries(tail(fresh))]

\* get_latest_price
get_latest_price(bufs, sym) ==
    LET buf == Get(bufs, sym, <<>>)
    IN  IF buf = <<>> THEN None ELSE buf[Len(buf)].price

\* get_active_symbols
get_active_symbols(bufs) == {s \in DOMAIN bufs : bufs[s] # <<>>}

\* resample_pass that stops at the first pair that raises
RECURSIVE resample_pass_stops(_, _, _, _)
resample_pass_stops(bufs, cache, todo, failing) ==
    IF todo = <<>> \/ Head(todo) \in failing THEN cache
    ELSE LET h == Head(todo)
             c == get_ohlcv(bufs, cache, h[1], h[2], None, None, None, TRUE).cache
         IN  resample_pass_stops(bufs, c, Tail(todo), failing)

\* one pass of resample_loop over the (symbol, timeframe) pairs of todo, in order:
\* a forced get_ohlcv for each; the pairs of failing raise, which is logged
RECURSIVE resample_pass(_, _, _, _)
resample_pass(bufs, cache, todo, failing) ==
    IF todo = <<>> THEN cache
    ELSE LET h == Head(todo)
             c == IF h \in failing THEN cache
                  ELSE get_ohlcv(bufs, cache, h[1], h[2], None, None, None, TRUE).cache
         IN  resample_pass(bufs, c, Tail(todo), failing)

\* the pairs a pass visits: for symbol in keys: for timeframe in the configured list
RECURSIVE PassOrder(_)
PassOrder(syms) ==
    IF syms = <<>> THEN <<>>
    ELSE [i \in DOMAIN resample_intervals_list |->
            <<Head(syms), resample_intervals_list[i]>>] \o PassOrder(Tail(syms))

(* The handlers.  Every coroutine of the program runs on one event loop and *)
(* none of these suspends between its first and last statement, so each is  *)
(* one step.  tick_counts is a defaultdict(int) that is only read with a    *)
(* default of 0, so it is a total function here.                            *)

AddTick(tick, now) ==
    LET symbol == normalize_symbol(tick.symbol)
    IN  /\ tick_buffers' = Put(tick_buffers, symbol,
                               deque_append(Get(tick_buffers, symbol, <<>>), tick))
        /\ tick_counts' = [tick_counts EXCEPT ![symbol] = @ + 1]
        /\ last_tick_time' = Put(last_tick_time, symbol, now)
        /\ added' = [added EXCEPT ![symbol] = Append(@, tick)]
        /\ ret' = [op |-> "add_tick", value |-> None]
        /\ UNCHANGED <<ohlcv_cache, loop_pc, notDm>>

GetTicks(symbol, limit, from_ts, to_ts) ==
    LET sym == normalize_symbol(symbol)
    IN  /\ tick_buffers' = Touch(tick_buffers, sym, <<>>)
        /\ ret' = [op |-> "get_ticks",
                   value |-> filter_ticks(Get(tick_buffers, sym, <<>>),
                                          limit, from_ts, to_ts)]
        /\ UNCHANGED <<tick_counts, last_tick_time, ohlcv_cache, added, loop_pc, notDm>>

GetOhlcv(symbol, timeframe, limit, from_ts, to_ts, force_resample) ==
    LET r == get_ohlcv(tick_buffers, ohlcv_cache, symbol, timeframe,
                       limit, from_ts, to_ts, force_resample)
    IN  /\ tick_buffers' = r.bufs
        /\ ohlcv_cache' = r.cache
        /\ ret' = [op |-> "get_ohlcv", value |-> r.result]
        /\ UNCHANGED <<tick_counts, last_tick_time, added, loop_pc, notDm>>

GetPriceSeries(symbol, timeframe, limit, force_resample) ==
    LET r == get_price_series(tick_buffers, ohlcv_cache, symbol, timeframe,
                              limit, force_resample)
    IN  /\ tick_buffers' = r.bufs
        /\ ohlcv_cache' = r.cache
        /\ ret' = [op |-> "get_price_series", value |-> r.result]
        /\ UNCHANGED <<tick_counts, last_tick_time, added, loop_pc, notDm>>

GetLatestPrice(symbol) ==
    LET sym == normalize_symbol(symbol)
    IN  /\ tick_buffers' = Touch(tick_buffers, sym, <<>>)
        /\ ret' = [op |-> "get_latest_price", value |-> get_latest_price(tick_buffers, sym)]
        /\ UNCHANGED <<tick_counts, last_tick_time, ohlcv_cache, added, loop_pc, notDm>>

GetActiveSymbols ==
    /\ ret' = [op |-> "get_active_symbols", value |-> get_active_symbols(tick_buffers)]
    /\ UNCHANGED <<tick_buffers, tick_counts, last_tick_time, ohlcv_cache, added,
                   loop_pc, notDm>>

\* clear_buffer(symbol) that leaves the cache alone
ClearBufferKeepsCache(symbol) ==
    LET sym == normalize_symbol(symbol)
    IN  /\ tick_buffers' = Put(tick_buffers, sym, <<>>)
        /\ tick_counts' = [tick_counts EXCEPT ![sym] = 0]
        /\ added' = [added EXCEPT ![sym] = <<>>]
        /\ ret' = [op |-> "clear_buffer", value |-> None]
        /\ UNCHANGED <<ohlcv_cache, last_tick_time, loop_pc, notDm>>

\* clear_buffer(symbol) for a symbol
ClearBuffer(symbol) ==
    LET sym == normalize_symbol(symbol)
    IN  /\ tick_buffers' = Put(tick_buffers, sym, <<>>)
        /\ tick_counts' = [tick_counts EXCEPT ![sym] = 0]
        /\ ohlcv_cache' = Drop(ohlcv_cache, {k \in DOMAIN ohlcv_cache : k[1] = sym})
        /\ added' = [added EXCEPT ![sym] = <<>>]
        /\ ret' = [op |-> "clear_buffer", value |-> None]
        /\ UNCHANGED <<last_tick_time, loop_pc, notDm>>

\* clear_buffer() without a symbol
ClearAll ==
    /\ tick_buffers' = [s \in DOMAIN tick_buffers |-> <<>>]
    /\ tick_counts' = [s \in Symbols |->
                         IF s \in DOMAIN tick_buffers THEN 0 ELSE tick_counts[s]]
    /\ ohlcv_cache' = <<>>
    /\ added' = [s \in Symbols |-> <<>>]
    /\ ret' = [op |-> "clear_buffer", value |-> None]
    /\ UNCHANGED <<last_tick_time, loop_pc, notDm>>

\* resample_loop: the sleep ends and one pass runs; the pass has no suspension point
ResamplePass(failing) ==
    /\ loop_pc = "sleep"
    /\ ohlcv_cache' = resample_pass(tick_buffers, ohlcv_cache,
                                    PassOrder(SortedSymbols(DOMAIN tick_buffers)), failing)
    /\ ret' = [op |-> "resample_loop", value |-> None]
    /\ UNCHANGED <<tick_buffers, tick_counts, last_tick_time, added, loop_pc, notDm>>

\* resample_loop: CancelledError is raised in the sleep and the loop breaks
CancelLoop ==
    /\ loop_pc = "sleep"
    /\ loop_pc' = "exited"
    /\ ret' = [op |-> "cancel", value |-> None]
    /\ UNCHANGED <<tick_buffers, tick_counts, last_tick_time, ohlcv_cache, added, notDm>>

InitDM ==
    /\ tick_buffers = <<>>
    /\ tick_counts = [s \in Symbols |-> 0]
    /\ last_tick_time = <<>>
    /\ ohlcv_cache = <<>>
    /\ added = [s \in Symbols |-> <<>>]
    /\ ret = [op |-> "init", value |-> None]
    /\ loop_pc = "sleep"

InitRSIdle ==
    /\ rs_ticks = <<>>
    /\ rs_rule = "1s"
    /\ rs_out = <<>>
    /\ rs_done = FALSE

-----------------------------------------------------------------------------
(* DataManager called from several threads.  The locks are held only inside   *)
(* one `with` block, so a step is the code up to the end of a critical        *)
(* section; the threads interleave between steps.                             *)

Threads == {"t1", "t2"}

Idle == [pc |-> "idle", kind |-> "none", sym |-> "none", tf |-> "none",
         from_ts |-> None, force |-> FALSE, ticks |-> <<>>, df |-> <<>>]

InitTh ==
    /\ th = [t \in Threads |-> Idle]
    /\ cache_src = <<>>

\* self.ohlcv_cache[cache_key] = df, storing only the first candle
store_entry_first_row(cache, key, df) == Put(cache, key, SubSeq(df, 1, 1))

\* self.ohlcv_cache[cache_key] = df
store_entry(cache, key, df) == Put(cache, key, df)

ThKey(t) == <<th[t].sym, th[t].tf>>

ThLeaves == <<tick_counts, last_tick_time, added, ret, loop_pc, rsVars, wsVars, extVars>>

\* a thread enters get_ohlcv, get_price_series or clear_buffer; the call of the
\* resample loop is get_ohlcv(symbol, timeframe, force_resample=True)
ThCall(t, kind, symbol, timeframe, from_ts, force_resample) ==
    /\ th[t].pc = "idle"
    /\ th' = [th EXCEPT ![t] =
                [pc |-> IF kind = "clear_buffer" THEN "clear" ELSE "lookup",
                 kind |-> kind, sym |-> normalize_symbol(symbol), tf |-> timeframe,
                 from_ts |-> from_ts, force |-> force_resample,
                 ticks |-> <<>>, df |-> <<>>]]
    /\ UNCHANGED <<tick_buffers, ohlcv_cache, cache_src, ThLeaves>>

\* get_ohlcv: `not force_resample and cache_key in self.ohlcv_cache`, without a lock;
\* get_price_series: self.ohlcv_cache.get(cache_key) under ohlcv_lock
ThLookup(t) ==
    /\ th[t].pc = "lookup"
    /\ LET hit == ~th[t].force /\ ThKey(t) \in DOMAIN ohlcv_cache
       IN  th' = [th EXCEPT ![t] =
                    IF ~hit THEN [@ EXCEPT !.pc = "snapshot"]
                    ELSE IF th[t].kind = "get_ohlcv" THEN [@ EXCEPT !.pc = "read"]
                    ELSE [@ EXCEPT !.pc = "return",
                                   !.df = ohlcv_cache[ThKey(t)],
                                   !.ticks = cache_src[ThKey(t)]]]
    /\ UNCHANGED <<tick_buffers, ohlcv_cache, cache_src, ThLeaves>>

\* get_ohlcv: df = self.ohlcv_cache[cache_key]; KeyError if the key has gone
ThRead(t) ==
    /\ th[t].pc = "read"
    /\ th' = [th EXCEPT ![t] =
                IF ThKey(t) \in DOMAIN ohlcv_cache
                THEN [@ EXCEPT !.pc = "return",
                               !.df = ohlcv_cache[ThKey(t)],
                               !.ticks = cache_src[ThKey(t)]]
                ELSE [Idle EXCEPT !.pc = "raised"]]
    /\ UNCHANGED <<tick_buffers, ohlcv_cache, cache_src, ThLeaves>>

\* the tick snapshot under the symbol's lock, then the resample of it; a call
\* without ticks returns at once
ThSnapshot(t) ==
    /\ th[t].pc = "snapshot"
    /\ LET ticks == IF th[t].kind = "get_ohlcv"
                    THEN ohlcv_source_ticks(tick_buffers, th[t].sym, th[t].from_ts, None)
                    ELSE Get(tick_buffers, th[t].sym, <<>>)
           df == resample_to_ohlcv(ticks, timeframe_to_pandas_rule(th[t].tf))
       IN  /\ tick_buffers' = Touch(tick_buffers, th[t].sym, <<>>)
           /\ th' = [th EXCEPT ![t] =
                       IF ticks = <<>> THEN Idle
                       ELSE IF th[t].kind = "get_price_series" /\ df = <<>> THEN Idle
                       ELSE [@ EXCEPT !.pc = "store", !.ticks = ticks, !.df = df]]
    /\ UNCHANGED <<ohlcv_cache, cache_src, ThLeaves>>

\* the write of the built candles under ohlcv_lock
ThStore(t) ==
    /\ th[t].pc = "store"
    /\ ohlcv_cache' = store_entry(ohlcv_cache, ThKey(t), th[t].df)
    /\ cache_src' = Put(cache_src, ThKey(t), th[t].ticks)
    /\ th' = [th EXCEPT ![t].pc = "return"]
    /\ UNCHANGED <<tick_buffers, ThLeaves>>

\* the caller's filters on its own copy, and the return
ThReturn(t) ==
    /\ th[t].pc \in {"return", "raised"}
    /\ th' = [th EXCEPT ![t] = Idle]
    /\ UNCHANGED <<tick_buffers, ohlcv_cache, cache_src, ThLeaves>>

\* clear_buffer(symbol): the buffer under the symbol's lock
ThClearBuffer(t) ==
    /\ th[t].pc = "clear"
    /\ tick_buffers' = Put(tick_buffers, th[t].sym, <<>>)
    /\ tick_counts' = [tick_counts EXCEPT ![th[t].sym] = 0]
    /\ added' = [added EXCEPT ![th[t].sym] = <<>>]
    /\ th' = [th EXCEPT ![t].pc = "clear_cache"]
    /\ UNCHANGED <<ohlcv_cache, cache_src, last_tick_time, ret, loop_pc, rsVars, wsVars,
                   extVars>>

\* clear_buffer(symbol): the cache keys of the symbol under ohlcv_lock
ThClearCache(t) ==
    /\ th[t].pc = "clear_cache"
    /\ ohlcv_cache' = Drop(ohlcv_cache, {k \in DOMAIN ohlcv_cache : k[1] = th[t].sym})
    /\ cache_src' = Drop(cache_src, {k \in DOMAIN cache_src : k[1] = th[t].sym})
    /\ th' = [th EXCEPT ![t] = Idle]
    /\ UNCHANGED <<tick_buffers, ThLeaves>>

-----------------------------------------------------------------------------
(* core/websocket_client.py: BinanceWebSocketClient *)

\* the callers of unsubscribe: two requests, and the two calls disconnect_all gathers
Callers == {"u1", "u2", "da1", "da2"}

\* a caller that is in no call
NoCall == [pc |-> "idle", symbol |-> "none", client |-> 0]

\* monitor_alerts before start_monitoring
MonIdle ==
    [pc |-> "idle", todo |-> <<>>,
     notification |-> [id |-> 0, alert_id |-> 0, metric |-> "", pair |-> "",
                       actual_value |-> None, threshold_value |-> None, ts |-> None],
     next_cb |-> 0, ticks |-> 0, issued |-> 0,
     tasks |-> 0, stopped |-> FALSE, at_start |-> {}, checked |-> <<>>]

\* self.max_reconnect_delay
max_reconnect_delay == 60

\* next_reconnect_delay without the cap
next_reconnect_delay_uncapped(delay) == delay * 2

\* the delay after a sleep: min(self.reconnect_delay * 2, self.max_reconnect_delay)
next_reconnect_delay(delay) == Min({delay * 2, max_reconnect_delay})

\* where _listen goes after leaving the try block: the backoff sleep while running,
\* else the while condition fails and the task ends
AfterTry == IF is_running THEN "backoff" ELSE "done"

InitWS ==
    /\ is_running = FALSE
    /\ reconnect_delay = 1
    /\ websocket = "none"
    /\ listen_pc = "idle"
    /\ cancelled = FALSE
    /\ disc_pc = "idle"
    /\ slept = <<>>

\* no frontend socket has been accepted and no message has arrived
InitHd ==
    /\ frontend_connections = {}
    /\ msg_log = <<>>
    /\ trades_in = <<>>
    /\ db_ticks = <<>>
    /\ tick_calls = <<>>
    /\ ticker_calls = <<>>

\* WebSocketManager.__init__
InitMg ==
    /\ clients = <<>>
    /\ made = <<>>
    /\ unsub = [u \in Callers |-> NoCall]
    /\ da = [pc |-> "idle", symbols |-> <<>>, held |-> {}, started |-> 0,
             subscribed |-> FALSE]

\* AlertsEngine.__init__, and the callback routes_stream registers on import
InitAl ==
    /\ alerts = <<>>
    /\ triggered_alerts = <<>>
    /\ callbacks = <<"broadcast_alert">>
    /\ is_monitoring = FALSE
    /\ mon = MonIdle
    /\ cb_log = <<>>

\* AnalyticsProcessor.__init__
InitAp ==
    /\ latest_results = <<>>
    /\ ap = [running |-> FALSE, pc |-> "none", passes |-> 0, raised |-> FALSE]

\* the program after construction
Init == InitDM /\ InitRSIdle /\ InitWS /\ InitTh /\ InitHd /\ InitMg /\ InitAl /\ InitAp

\* connect(): sets is_running and creates the _listen task, which enters the loop
WsConnect ==
    /\ listen_pc = "idle"
    /\ disc_pc = "idle"
    /\ is_running' = TRUE
    /\ listen_pc' = "connecting"
    /\ UNCHANGED <<reconnect_delay, websocket, cancelled, disc_pc, slept, notWs>>

\* _listen: websockets.connect succeeds; the delay is reset
ListenConnected ==
    /\ listen_pc = "connecting"
    /\ ~cancelled
    /\ websocket' = "open"
    /\ reconnect_delay' = 1
    /\ listen_pc' = "connected"
    /\ slept' = <<>>
    /\ UNCHANGED <<is_running, cancelled, disc_pc, notWs>>

\* _listen: websockets.connect raises; the exception is logged
ListenConnectFailed ==
    /\ listen_pc = "connecting"
    /\ ~cancelled
    /\ listen_pc' = AfterTry
    /\ UNCHANGED <<is_running, reconnect_delay, websocket, cancelled, disc_pc, slept,
                   notWs>>

\* _listen: a message arrives; a stopped client breaks out of the loop, which
\* closes the connection, a running one handles the message and keeps listening
ListenMessage ==
    /\ listen_pc = "connected"
    /\ websocket = "open"
    /\ ~cancelled
    /\ IF is_running
       THEN UNCHANGED <<listen_pc, websocket>>
       ELSE listen_pc' = "done" /\ websocket' = "closed"
    /\ UNCHANGED <<is_running, reconnect_delay, cancelled, disc_pc, slept, notWs>>

\* _listen: the connection drops or is closed (by the peer or by disconnect())
ListenClosed ==
    /\ listen_pc = "connected"
    /\ ~cancelled
    /\ websocket' = "closed"
    /\ listen_pc' = AfterTry
    /\ UNCHANGED <<is_running, reconnect_delay, cancelled, disc_pc, slept, notWs>>

\* _listen: the backoff sleep ends and the delay doubles up to the cap
ListenSlept ==
    /\ listen_pc = "backoff"
    /\ ~cancelled
    /\ slept' = Append(slept, reconnect_delay)
    /\ reconnect_delay' = next_reconnect_delay(reconnect_delay)
    /\ listen_pc' = IF is_running THEN "connecting" ELSE "done"
    /\ UNCHANGED <<is_running, websocket, cancelled, disc_pc, notWs>>

\* _listen: CancelledError is raised at the await the task is suspended in
ListenCancelled ==
    /\ cancelled
    /\ listen_pc \in {"connecting", "connected", "sending", "backoff"}
    /\ listen_pc' = "done"
    /\ websocket' = IF listen_pc \in {"connected", "sending"} THEN "closed" ELSE websocket
    /\ cancelled' = FALSE
    /\ UNCHANGED <<is_running, reconnect_delay, disc_pc, slept, notWs>>

\* disconnect(): clears is_running, then awaits websocket.close() if a connection is open
DisconnectStart ==
    /\ disc_pc = "idle"
    /\ listen_pc # "idle"
    /\ is_running' = FALSE
    /\ disc_pc' = IF websocket = "open" THEN "closing" ELSE "closed"
    /\ UNCHANGED <<reconnect_delay, websocket, listen_pc, cancelled, slept, notWs>>

\* disconnect(): websocket.close() returns
DisconnectClosed ==
    /\ disc_pc = "closing"
    /\ websocket' = "closed"
    /\ disc_pc' = "closed"
    /\ UNCHANGED <<is_running, reconnect_delay, listen_pc, cancelled, slept, notWs>>

\* disconnect() that cancels the task and returns without awaiting it
DisconnectCancelNoAwait ==
    /\ disc_pc = "closed"
    /\ disc_pc' = "returned"
    /\ cancelled' = (listen_pc # "done")
    /\ UNCHANGED <<is_running, reconnect_delay, websocket, listen_pc, slept, notWs>>

\* disconnect(): cancels the task unless it is done, and awaits it
DisconnectCancel ==
    /\ disc_pc = "closed"
    /\ IF listen_pc = "done"
       THEN disc_pc' = "returned" /\ UNCHANGED cancelled
       ELSE disc_pc' = "awaiting" /\ cancelled' = TRUE
    /\ UNCHANGED <<is_running, reconnect_delay, websocket, listen_pc, slept, notWs>>

\* disconnect(): the awaited task has ended
DisconnectReturn ==
    /\ disc_pc = "awaiting"
    /\ listen_pc = "done"
    /\ disc_pc' = "returned"
    /\ UNCHANGED <<is_running, reconnect_delay, websocket, listen_pc, cancelled, slept,
                   notWs>>

MaxSleeps == 8

NextWS ==
    \/ WsConnect
    \/ ListenConnected
    \/ Len(slept) < MaxSleeps /\ ListenConnectFailed
    \/ ListenMessage
    \/ Len(slept) < MaxSleeps /\ ListenClosed
    \/ ListenSlept
    \/ ListenCancelled
    \/ DisconnectStart
    \/ DisconnectClosed
    \/ DisconnectCancel
    \/ DisconnectReturn

SpecWS == Init /\ [][NextWS]_vars

\* 2^n
RECURSIVE Pow2(_)
Pow2(n) == IF n = 0 THEN 1 ELSE 2 * Pow2(n - 1)

\* C10: the delays slept before consecutive reconnection attempts that follow one
\* another without an established connection are 1, 2, 4, 8, 16, 32, 60, 60, ...;
\* the delay is 1 whenever a connection is established; and the delay always lies
\* between 1 and 60.
C10_Backoff ==
    /\ 1 <= reconnect_delay /\ reconnect_delay <= 60
    /\ \A i \in DOMAIN slept : slept[i] = Min({Pow2(i - 1), 60})
    /\ listen_pc = "connected" => reconnect_delay = 1 /\ slept = <<>>

\* C10 witness: eight sleeps in a row without a connection, the last two of 60 s
C10_Witness ==
    /\ is_running
    /\ Len(slept) = 8
    /\ slept[6] = 32 /\ slept[7] = 60 /\ slept[8] = 60
    /\ reconnect_delay = 60

-----------------------------------------------------------------------------
(* core/websocket_client.py: the messages of the feed and their handlers;     *)
(* api/routes_stream.py: handle_tick and handle_ticker.                       *)
(* A message is json text; its values are kept as the text the feed sends.    *)

\* a key that the JSON object does not have
Absent == "absent"

\* a message outside the combined-stream format: no "stream" and "data" keys
NoStream == "none"

\* float(text): the texts that parse, with their values; other texts raise ValueError
FloatText == ("1" :> 1) @@ ("2" :> 2)

\* datetime.fromtimestamp(ms / 1000): the millisecond values of the feed, in seconds;
\* a value that is not a number raises TypeError
MsSeconds == ("0" :> 0) @@ ("1000" :> 1)

DataKeys == {"e", "T", "E", "s", "p", "P", "c", "o", "h", "l", "v", "q"}

\* the JSON object with the given keys
Data(given) == [k \in DataKeys |-> IF k \in DOMAIN given THEN given[k] ELSE Absent]

\* the keys _handle_ticker reads with float()
TickerFloatKeys == <<"p", "P", "c", "o", "h", "l", "v", "q">>

\* where a stream name holds "@trade" / "@ticker"
IsTradeStream(stream_name) == stream_name = "btcusdt@trade"
IsTickerStream(stream_name) == stream_name = "btcusdt@ticker"

\* _handle_message that looks at the event type only
dispatch_by_event(m) ==
    IF m.data["e"] = "trade" THEN "trade"
    ELSE IF m.data["e"] = "24hrTicker" THEN "ticker"
    ELSE "none"

\* _handle_message: the handler a decoded message is given to
dispatch(m) ==
    IF m.stream # NoStream
    THEN IF IsTradeStream(m.stream) /\ m.data["e"] = "trade" THEN "trade"
         ELSE IF IsTickerStream(m.stream) /\ m.data["e"] = "24hrTicker" THEN "ticker"
         ELSE "none"
    ELSE IF m.data["e"] = "trade" THEN "trade"
         ELSE IF m.data["e"] = "24hrTicker" THEN "ticker"
         ELSE "none"

\* _handle_trade, lines 155-166: the tick of a trade event, or the exception raised
trade_tick(d) ==
    IF d["T"] = Absent THEN [err |-> "KeyError"]
    ELSE IF d["T"] \notin DOMAIN MsSeconds THEN [err |-> "TypeError"]
    ELSE IF d["s"] = Absent \/ d["p"] = Absent THEN [err |-> "KeyError"]
    ELSE IF d["p"] \notin DOMAIN FloatText THEN [err |-> "ValueError"]
    ELSE IF d["q"] = Absent THEN [err |-> "KeyError"]
    ELSE IF d["q"] \notin DOMAIN FloatText THEN [err |-> "ValueError"]
    ELSE [err |-> "none",
          tick |-> [symbol |-> d["s"], price |-> FloatText[d["p"]],
                    qty |-> FloatText[d["q"]], ts |-> MsSeconds[d["T"]]]]

\* _handle_ticker, lines 196-210: the ticker of a 24h ticker event, or the exception
RECURSIVE ticker_floats(_, _)
ticker_floats(d, keys) ==
    IF keys = <<>> THEN "none"
    ELSE IF d[Head(keys)] = Absent THEN "KeyError"
    ELSE IF d[Head(keys)] \notin DOMAIN FloatText THEN "ValueError"
    ELSE ticker_floats(d, Tail(keys))

ticker_stats(d) ==
    IF d["s"] = Absent THEN [err |-> "KeyError"]
    ELSE IF ticker_floats(d, TickerFloatKeys) # "none"
    THEN [err |-> ticker_floats(d, TickerFloatKeys)]
    ELSE IF d["E"] = Absent THEN [err |-> "KeyError"]
    ELSE IF d["E"] \notin DOMAIN MsSeconds THEN [err |-> "TypeError"]
    ELSE [err |-> "none",
          ticker |-> [symbol |-> d["s"], lastPrice |-> FloatText[d["c"]],
                      ts |-> MsSeconds[d["E"]]]]

\* what _listen does with one message: "trade" or "ticker" when a handler is
\* invoked, "dropped" when the message is logged and left
outcome(m) ==
    IF m.json = "invalid" THEN "dropped"
    ELSE IF m.json # "object" THEN "dropped"
    ELSE IF dispatch(m) = "trade" /\ trade_tick(m.data).err = "none" THEN "trade"
    ELSE IF dispatch(m) = "ticker" /\ ticker_stats(m.data).err = "none" THEN "ticker"
    ELSE "dropped"

\* _handle_trade that gives up when the insert fails
trade_reaches_handler_if_stored(db_ok) == db_ok

\* _handle_trade, lines 169-180: on_tick is called whether or not insert_tick raised
trade_reaches_handler(db_ok) == TRUE

\* handle_tick that puts the tick in front of the buffer
handle_tick_prepends(buf, tick) == LastN(<<tick>> \o buf, tick_buffer_size)

\* handle_tick -> add_tick: the buffer of the tick's symbol after the call
handle_tick(buf, tick) == deque_append(buf, tick)

\* _listen, lines 69-79: one message is taken from the connection.  A stopped
\* client breaks out of the loop.  A running client decodes the message and
\* handles it up to the first await that suspends, the send to a frontend socket.
ListenReceive(m, db_ok, now) ==
    /\ listen_pc = "connected"
    /\ websocket = "open"
    /\ ~cancelled
    /\ msg_log' = Append(msg_log, IF is_running THEN outcome(m) ELSE "break")
    /\ IF ~is_running
       THEN /\ listen_pc' = "done"
            /\ websocket' = "closed"
            /\ UNCHANGED <<trades_in, db_ticks, tick_calls, ticker_calls,
                           tick_buffers, tick_counts, last_tick_time, added, ret>>
       ELSE /\ UNCHANGED websocket
            /\ listen_pc' = IF outcome(m) # "dropped" /\ frontend_connections # {}
                            THEN "sending" ELSE "connected"
            /\ IF outcome(m) = "trade"
               THEN LET tick == trade_tick(m.data).tick
                        symbol == normalize_symbol(tick.symbol)
                        called == trade_reaches_handler(db_ok)
                    IN  /\ trades_in' = Append(trades_in, tick)
                        /\ db_ticks' = Append(db_ticks, [tick |-> tick, ok |-> db_ok])
                        /\ tick_calls' = IF called THEN Append(tick_calls, tick)
                                         ELSE tick_calls
                        /\ IF called
                           THEN /\ tick_buffers' =
                                     Put(tick_buffers, symbol,
                                         handle_tick(Get(tick_buffers, symbol, <<>>), tick))
                                /\ tick_counts' = [tick_counts EXCEPT ![symbol] = @ + 1]
                                /\ last_tick_time' = Put(last_tick_time, symbol, now)
                                /\ added' = [added EXCEPT ![symbol] = Append(@, tick)]
                                /\ ret' = [op |-> "add_tick", value |-> None]
                           ELSE UNCHANGED <<tick_buffers, tick_counts, last_tick_time,
                                            added, ret>>
                        /\ UNCHANGED ticker_calls
               ELSE /\ ticker_calls' = IF outcome(m) = "ticker"
                                       THEN Append(ticker_calls, ticker_stats(m.data).ticker)
                                       ELSE ticker_calls
                    /\ UNCHANGED <<trades_in, db_ticks, tick_calls,
                                   tick_buffers, tick_counts, last_tick_time, added, ret>>
    /\ UNCHANGED <<is_running, reconnect_delay, cancelled, disc_pc, slept,
                   frontend_connections, ohlcv_cache, loop_pc, rsVars, thVars,
                   mgVars, engVars>>

\* handle_tick / handle_ticker, lines 57-66 and 91-100: the send to the frontend
\* sockets returns; a socket whose send failed is taken out of the set
ListenSent(sent_ok) ==
    /\ listen_pc = "sending"
    /\ ~cancelled
    /\ listen_pc' = "connected"
    /\ frontend_connections' = IF sent_ok THEN frontend_connections ELSE {}
    /\ UNCHANGED <<is_running, reconnect_delay, websocket, cancelled, disc_pc, slept,
                   msg_log, trades_in, db_ticks, tick_calls, ticker_calls,
                   dmVars, rsVars, thVars, mgVars, engVars>>

\* websocket_endpoint, lines 277-278: a frontend socket is accepted
FrontendAccept(f) ==
    /\ f \notin frontend_connections
    /\ frontend_connections' = frontend_connections \cup {f}
    /\ UNCHANGED <<msg_log, trades_in, db_ticks, tick_calls, ticker_calls,
                   wsVars, dmVars, rsVars, thVars, mgVars, engVars>>

\* websocket_endpoint, line 334: a frontend socket has gone
FrontendGone(f) ==
    /\ f \in frontend_connections
    /\ frontend_connections' = frontend_connections \ {f}
    /\ UNCHANGED <<msg_log, trades_in, db_ticks, tick_calls, ticker_calls,
                   wsVars, dmVars, rsVars, thVars, mgVars, engVars>>

-----------------------------------------------------------------------------
(* core/websocket_client.py: WebSocketManager.  A client is kept by what the  *)
(* manager sees of it: is_running, and whether its listen task has ended.     *)
(* subscribe has no await that suspends (connect() only creates the task), so *)
(* it is one step; unsubscribe suspends in disconnect() until the listen task *)
(* of the client has ended.                                                   *)

\* get_active_symbols
ws_active_symbols(cl) == DOMAIN cl

\* subscribe(symbol): the clients and the constructed clients after the call
subscribe(cl, md, symbol) ==
    LET sym == normalize_symbol(symbol)
    IN  IF sym \in DOMAIN cl
        THEN [clients |-> cl, made |-> md]
        ELSE [clients |-> Put(cl, sym, Len(md) + 1),
              made |-> Append(md, [symbol |-> sym, is_running |-> TRUE,
                                   task |-> "running"])]

\* subscribe_multiple(symbols): gather runs the subscribe calls in order, each to
\* its end
RECURSIVE subscribe_multiple(_, _, _)
subscribe_multiple(cl, md, symbols) ==
    IF symbols = <<>> THEN [clients |-> cl, made |-> md]
    ELSE LET one == subscribe(cl, md, Head(symbols))
         IN  subscribe_multiple(one.clients, one.made, Tail(symbols))

SubscribeMultiple(symbols) ==
    LET r == subscribe_multiple(clients, made, symbols)
    IN  /\ clients' = r.clients
        /\ made' = r.made
        /\ da' = [da EXCEPT !.subscribed = @ \/ (da.pc # "idle" /\ r.made # made)]
        /\ UNCHANGED <<unsub, hdVars, engVars, wsVars, dmVars, rsVars, thVars>>

\* unsubscribe(symbol) up to its first suspension: an unknown symbol returns at
\* once; else disconnect() clears is_running and, when the listen task has already
\* ended, returns without suspending, so that the entry is deleted in the same step
UnsubscribeBegin(u, symbol) ==
    LET sym == normalize_symbol(symbol)
    IN  /\ unsub[u].pc = "idle"
        /\ IF sym \notin DOMAIN clients
           THEN UNCHANGED <<clients, made, unsub>>
           ELSE LET c == clients[sym]
                IN  /\ made' = [made EXCEPT ![c].is_running = FALSE]
                    /\ IF made[c].task = "done"
                       THEN clients' = Drop(clients, {sym}) /\ UNCHANGED unsub
                       ELSE /\ UNCHANGED clients
                            /\ unsub' = [unsub EXCEPT ![u] =
                                  [pc |-> "awaiting", symbol |-> sym, client |-> c]]

\* unsubscribe(symbol) called by a request
UnsubscribeStart(u, symbol) ==
    /\ u \in {"u1", "u2"}
    /\ UnsubscribeBegin(u, symbol)
    /\ UNCHANGED <<da, hdVars, engVars, wsVars, dmVars, rsVars, thVars>>

\* the listen task of a client that was told to stop ends (closed or cancelled)
ClientTaskEnds(c) ==
    /\ c \in DOMAIN made
    /\ made[c].task = "running"
    /\ ~made[c].is_running
    /\ made' = [made EXCEPT ![c].task = "done"]
    /\ UNCHANGED <<clients, unsub, da, hdVars, engVars, wsVars, dmVars, rsVars, thVars>>

\* del self.clients[symbol]: KeyError when the manager holds no entry of the symbol
del_raises(cl, symbol) == symbol \notin DOMAIN cl

\* unsubscribe(symbol) after disconnect() returned: del self.clients[symbol], which
\* raises KeyError when another call has deleted the entry
UnsubscribeFinish(u) ==
    /\ unsub[u].pc = "awaiting"
    /\ made[unsub[u].client].task = "done"
    /\ clients' = Drop(clients, {unsub[u].symbol} \cap DOMAIN clients)
    /\ unsub' = [unsub EXCEPT ![u] = NoCall]
    /\ UNCHANGED <<made, da, hdVars, engVars, wsVars, dmVars, rsVars, thVars>>

\* the caller of the i-th unsubscribe that disconnect_all gathers
DaCaller(i) == IF i = 1 THEN "da1" ELSE "da2"

\* disconnect_all: symbols = list(self.clients.keys()), and the gather is awaited
DisconnectAllStart ==
    /\ da.pc = "idle"
    /\ da' = [da EXCEPT !.pc = "gathering",
                        !.symbols = SortedSymbols(DOMAIN clients),
                        !.held = {clients[s] : s \in DOMAIN clients},
                        !.started = 0]
    /\ UNCHANGED <<clients, made, unsub, hdVars, engVars, wsVars, dmVars, rsVars, thVars>>

\* disconnect_all: the next unsubscribe of the gather starts
DisconnectAllChild ==
    /\ da.pc = "gathering"
    /\ da.started < Len(da.symbols)
    /\ UnsubscribeBegin(DaCaller(da.started + 1), da.symbols[da.started + 1])
    /\ da' = [da EXCEPT !.started = @ + 1]
    /\ UNCHANGED <<hdVars, engVars, wsVars, dmVars, rsVars, thVars>>

\* disconnect_all: every unsubscribe of the gather has returned or raised
DisconnectAllReturn ==
    /\ da.pc = "gathering"
    /\ da.started = Len(da.symbols)
    /\ \A i \in 1..Len(da.symbols) : unsub[DaCaller(i)].pc = "idle"
    /\ da' = [da EXCEPT !.pc = "returned"]
    /\ UNCHANGED <<clients, made, unsub, hdVars, engVars, wsVars, dmVars, rsVars, thVars>>

-----------------------------------------------------------------------------
(* core/alerts_engine.py: AlertsEngine.  alerts[i] is the i-th Alert object    *)
(* constructed; listed says whether self.alerts still holds it (the list of a  *)
(* monitoring pass keeps the objects it took, removed or not).  check_alert on *)
(* a price rule has no await that suspends; the loop suspends in a callback    *)
(* and in its sleep.                                                           *)

\* str.lower() and str.upper() on the texts of the model
lower(metric) == IF metric = "PRICE" THEN "price" ELSE metric

upper(pair) == IF pair = " btcusdt" THEN " BTCUSDT" ELSE pair

Abs(x) == IF x < 0 THEN 0 - x ELSE x

\* The values of the rules, the prices they are compared with and the analytics
\* are counted in units of 1e-7, so that the tolerance of "==" is a whole number:
\* the literal 1e-6 of _evaluate_condition
Epsilon == 10

\* a notification slot that holds none
NoNotification ==
    [id |-> 0, alert_id |-> 0, metric |-> "", pair |-> "", actual_value |-> None,
     threshold_value |-> None, ts |-> None]

\* a get_active_alerts that lists the newest rule first
get_active_alerts_newest_first(al) ==
    LET ids == SelectSeq([i \in 1..Len(al) |-> i], LAMBDA i : al[i].listed /\ al[i].active)
    IN  [k \in 1..Len(ids) |-> ids[Len(ids) + 1 - k]]

\* get_active_alerts: the ids of the listed, active alerts in the dict's order
get_active_alerts(al) ==
    SelectSeq([i \in 1..Len(al) |-> i], LAMBDA i : al[i].listed /\ al[i].active)

\* _evaluate_condition with the operands exchanged
_evaluate_condition_exchanged(actual, operator, threshold) ==
    IF actual = NaN \/ threshold = NaN THEN FALSE
    ELSE CASE operator = ">" -> threshold > actual
           [] operator = "<" -> threshold < actual
           [] operator = ">=" -> threshold >= actual
           [] operator = "<=" -> threshold <= actual
           [] operator = "==" -> Abs(actual - threshold) * 1000000 < 1
           [] OTHER -> FALSE

\* _evaluate_condition with a tolerance that includes its bound
_evaluate_condition_closed(actual, operator, threshold) ==
    IF actual = NaN \/ threshold = NaN THEN FALSE
    ELSE CASE operator = ">" -> actual > threshold
           [] operator = "<" -> actual < threshold
           [] operator = ">=" -> actual >= threshold
           [] operator = "<=" -> actual <= threshold
           [] operator = "==" -> Abs(actual - threshold) <= Epsilon
           [] OTHER -> FALSE

\* _evaluate_condition: every comparison with nan is False; "==" is
\* abs(actual - threshold) < 1e-6
_evaluate_condition(actual, operator, threshold) ==
    IF actual = NaN \/ threshold = NaN THEN FALSE
    ELSE CASE operator = ">" -> actual > threshold
           [] operator = "<" -> actual < threshold
           [] operator = ">=" -> actual >= threshold
           [] operator = "<=" -> actual <= threshold
           [] operator = "==" -> Abs(actual - threshold) < Epsilon
           [] OTHER -> FALSE

\* _get_metric_value: the latest price of the pair, or what the analytics give for
\* a pair metric (analytic: None when they give nothing)
_get_metric_value(metric, pair, bufs, analytic) ==
    IF lower(metric) = "price" THEN get_latest_price(bufs, normalize_symbol(pair))
    ELSE IF lower(metric) \in {"zscore", "spread", "correlation"} THEN analytic
    ELSE None

\* check_alert: whether the rule triggers, and on which value
check_alert(alert, bufs, analytic) ==
    LET actual_value == _get_metric_value(alert.metric, alert.pair, bufs, analytic)
    IN  [triggered |-> actual_value # None /\
                       _evaluate_condition(actual_value, alert.operator, alert.value),
         actual_value |-> actual_value]

\* the callbacks of a notification taken from the last registered to the first
callback_at_reversed(cbs, k) == cbs[Len(cbs) + 1 - k]

\* for callback in self.callbacks: the k-th callback the loop calls
callback_at(cbs, k) == cbs[k]

\* a loop in which the exception of a callback ends the pass
callbacks_continue_unless_raised(result) == result = "ok"

\* try: await callback(notification) / except Exception: the loop over the
\* callbacks goes on whether the callback returned or raised
callbacks_continue(result) == TRUE

\* the record of a callback that has just been called
Called(k, n, cbs) ==
    [cb |-> callback_at(cbs, k), n |-> n.id, alert_id |-> n.alert_id,
     tick |-> mon.ticks, outcome |-> "pending"]

\* cb_log with the outcome of the callback that was running
Returned(result) ==
    IF cb_log # <<>> /\ cb_log[Len(cb_log)].outcome = "pending"
    THEN [cb_log EXCEPT ![Len(cb_log)].outcome = result]
    ELSE cb_log

alLeaves == <<hdVars, mgVars, wsVars, dmVars, rsVars, thVars, apVars>>

\* the ids of the listed, active alerts
ActiveIds(al) == {i \in DOMAIN al : al[i].listed /\ al[i].active}

\* a check_alert that sets the count of a triggered rule instead of adding to it
mark_triggered_once(alert, ts) ==
    [alert EXCEPT !.triggered_at = ts, !.trigger_count = 1]

\* check_alert on a triggered rule: triggered_at and trigger_count
mark_triggered(alert, ts) ==
    [alert EXCEPT !.triggered_at = ts, !.trigger_count = @ + 1]

\* a remove_alert that reports success whether the id was found or not
remove_alert_found_always(al, alert_id) ==
    IF alert_id \in DOMAIN al /\ al[alert_id].listed
    THEN [alerts |-> [al EXCEPT ![alert_id].listed = FALSE], result |-> TRUE]
    ELSE [alerts |-> al, result |-> TRUE]

\* remove_alert: the rule table after the call and the value returned
remove_alert(al, alert_id) ==
    IF alert_id \in DOMAIN al /\ al[alert_id].listed
    THEN [alerts |-> [al EXCEPT ![alert_id].listed = FALSE], result |-> TRUE]
    ELSE [alerts |-> al, result |-> FALSE]

\* a start_monitoring that creates a task whether one is running or not
start_monitoring_unguarded(m) ==
    [m EXCEPT !.pc = "created", !.tasks = @ + 1]

\* start_monitoring: nothing when self.monitoring_task is set and not done, else
\* a new task
start_monitoring(m) ==
    IF m.pc \notin {"idle", "done"} THEN m
    ELSE [m EXCEPT !.pc = "created", !.tasks = @ + 1]

AddAlert(metric, pair, operator, value) ==
    /\ alerts' = Append(alerts,
          [id |-> Len(alerts) + 1, metric |-> lower(metric), pair |-> upper(pair),
           operator |-> operator, value |-> value, active |-> TRUE,
           triggered_at |-> None, trigger_count |-> 0, listed |-> TRUE])
    /\ UNCHANGED <<triggered_alerts, callbacks, is_monitoring, mon, cb_log, alLeaves>>

RemoveAlert(alert_id) ==
    /\ alerts' = remove_alert(alerts, alert_id).alerts
    /\ UNCHANGED <<triggered_alerts, callbacks, is_monitoring, mon, cb_log, alLeaves>>

ClearTriggeredAlerts ==
    /\ triggered_alerts' = <<>>
    /\ UNCHANGED <<alerts, callbacks, is_monitoring, mon, cb_log, alLeaves>>

\* get_triggered_alerts: with a limit that is not None and not 0 the slice
\* triggered_alerts[-limit:], a new list; otherwise self.triggered_alerts itself
get_triggered_alerts(hist, limit) ==
    IF limit # None /\ limit # 0
    THEN [value |-> SubSeq(hist, IF Len(hist) > limit THEN Len(hist) - limit + 1 ELSE 1,
                           Len(hist)),
          alias |-> FALSE]
    ELSE [value |-> hist, alias |-> TRUE]

\* a call of get_triggered_alerts: the caller holds a list with these contents,
\* which is the engine's own list when alias is true
GetTriggeredAlerts(limit) ==
    LET r == get_triggered_alerts(triggered_alerts, limit)
    IN  /\ ret' = [op |-> "get_triggered_alerts", limit |-> limit, value |-> r.value,
                   alias |-> r.alias, popped |-> 0]
        /\ UNCHANGED <<tick_buffers, tick_counts, last_tick_time, ohlcv_cache, added,
                       loop_pc, notDm>>

\* the list the caller of get_triggered_alerts holds, as it is now
ReturnedList == IF ret.alias THEN triggered_alerts ELSE ret.value

\* the caller removes the last element of the list it was given (list.pop())
CallerPops ==
    /\ ret.op = "get_triggered_alerts"
    /\ ReturnedList # <<>>
    /\ LET popped == SubSeq(ReturnedList, 1, Len(ReturnedList) - 1)
       IN  /\ ret' = [ret EXCEPT !.value = popped, !.popped = @ + 1]
           /\ triggered_alerts' = IF ret.alias THEN popped ELSE triggered_alerts
    /\ UNCHANGED <<alerts, callbacks, is_monitoring, mon, cb_log,
                   tick_buffers, tick_counts, last_tick_time, ohlcv_cache, added, loop_pc,
                   hdVars, mgVars, wsVars, rsVars, thVars, apVars>>

\* what a call that only returns a value leaves alone
notRet == <<tick_buffers, tick_counts, last_tick_time, ohlcv_cache, added, loop_pc, notDm>>

\* a call of _evaluate_condition and the value it returns
EvaluateCondition(actual, operator, threshold) ==
    /\ ret' = [op |-> "_evaluate_condition", actual |-> actual, operator |-> operator,
               threshold |-> threshold,
               value |-> _evaluate_condition(actual, operator, threshold)]
    /\ UNCHANGED notRet

RegisterCallback(callback) ==
    /\ callbacks' = Append(callbacks, callback)
    /\ UNCHANGED <<alerts, triggered_alerts, is_monitoring, mon, cb_log, alLeaves>>

\* start_monitoring: a task is created unless one is running
StartMonitoring ==
    /\ mon' = [start_monitoring(mon) EXCEPT !.stopped = FALSE]
    /\ UNCHANGED <<alerts, triggered_alerts, callbacks, is_monitoring, cb_log, alLeaves>>

\* monitor_alerts up to the list of its first pass
MonitorBegin ==
    /\ mon.pc = "created"
    /\ is_monitoring' = TRUE
    /\ mon' = [mon EXCEPT !.pc = "checking", !.todo = get_active_alerts(alerts),
                          !.ticks = @ + 1, !.at_start = ActiveIds(alerts),
                          !.checked = <<>>]
    /\ UNCHANGED <<alerts, triggered_alerts, callbacks, cb_log, alLeaves>>

\* one round of `for alert in active_alerts`: check_alert, the append to the
\* history and the call of the first callback
CheckAlert(now, analytic) ==
    /\ mon.pc = "checking"
    /\ mon.todo # <<>>
    /\ LET alert == alerts[Head(mon.todo)]
           r == check_alert(alert, tick_buffers, analytic)
           notification ==
               [id |-> mon.issued + 1, alert_id |-> alert.id, metric |-> alert.metric,
                pair |-> alert.pair, actual_value |-> r.actual_value,
                threshold_value |-> alert.value, ts |-> now]
       IN  /\ tick_buffers' = IF lower(alert.metric) = "price"
                              THEN Touch(tick_buffers, normalize_symbol(alert.pair), <<>>)
                              ELSE tick_buffers
           /\ IF r.triggered
              THEN /\ alerts' = [alerts EXCEPT ![alert.id] = mark_triggered(alert, now)]
                   /\ triggered_alerts' = Append(triggered_alerts, notification)
                   /\ IF callbacks = <<>>
                      THEN /\ mon' = [mon EXCEPT !.todo = Tail(@), !.issued = @ + 1,
                                                 !.checked = Append(@, alert.id)]
                           /\ UNCHANGED cb_log
                      ELSE /\ mon' = [mon EXCEPT !.pc = "in_callback", !.todo = Tail(@),
                                                 !.issued = @ + 1,
                                                 !.checked = Append(@, alert.id),
                                                 !.notification = notification,
                                                 !.next_cb = 1]
                           /\ cb_log' = <<Called(1, notification, callbacks)>>
              ELSE /\ mon' = [mon EXCEPT !.todo = Tail(@),
                                         !.checked = Append(@, alert.id)]
                   /\ UNCHANGED <<alerts, triggered_alerts, cb_log>>
    /\ UNCHANGED <<callbacks, is_monitoring, tick_counts, last_tick_time, ohlcv_cache,
                   added, ret, loop_pc, hdVars, mgVars, wsVars, rsVars, thVars, apVars>>

\* the callback that was awaited returns or raises, and the loop calls the next
\* callback or goes to the next alert
CallbackReturn(result) ==
    /\ mon.pc = "in_callback"
    /\ IF ~callbacks_continue(result)
       THEN /\ mon' = [mon EXCEPT !.pc = "sleeping", !.todo = <<>>,
                                  !.notification = NoNotification, !.next_cb = 0]
            /\ cb_log' = Returned(result)
       ELSE IF mon.next_cb < Len(callbacks)
       THEN /\ mon' = [mon EXCEPT !.next_cb = @ + 1]
            /\ cb_log' = Append(Returned(result),
                                Called(mon.next_cb + 1, mon.notification, callbacks))
       ELSE /\ mon' = [mon EXCEPT !.pc = "checking", !.notification = NoNotification,
                                  !.next_cb = 0]
            /\ cb_log' = Returned(result)
    /\ UNCHANGED <<alerts, triggered_alerts, callbacks, is_monitoring, alLeaves>>

\* await asyncio.sleep(interval) after the last alert of the pass
MonitorSleep ==
    /\ mon.pc = "checking"
    /\ mon.todo = <<>>
    /\ mon' = [mon EXCEPT !.pc = "sleeping"]
    /\ UNCHANGED <<alerts, triggered_alerts, callbacks, is_monitoring, cb_log, alLeaves>>

\* the sleep ends: while self.is_monitoring, and the list of the next pass
MonitorWake ==
    /\ mon.pc = "sleeping"
    /\ mon' = IF is_monitoring
              THEN [mon EXCEPT !.pc = "checking", !.todo = get_active_alerts(alerts),
                               !.ticks = @ + 1, !.at_start = ActiveIds(alerts),
                               !.checked = <<>>]
              ELSE [mon EXCEPT !.pc = "done", !.tasks = @ - 1]
    /\ UNCHANGED <<alerts, triggered_alerts, callbacks, is_monitoring, cb_log, alLeaves>>

\* a stop_monitoring that clears the flag and leaves the task to end by itself
StopMonitoringFlagOnly ==
    /\ mon.pc # "checking"
    /\ is_monitoring' = FALSE
    /\ mon' = [mon EXCEPT !.stopped = TRUE]
    /\ UNCHANGED <<alerts, triggered_alerts, callbacks, cb_log, alLeaves>>

\* stop_monitoring: the task is cancelled where it is suspended and awaited;
\* CancelledError passes the except Exception of the callbacks and breaks the
\* loop, and a cancelled task takes no other step
StopMonitoring ==
    /\ mon.pc # "checking"
    /\ is_monitoring' = FALSE
    /\ IF mon.pc \in {"created", "in_callback", "sleeping"}
       THEN /\ mon' = [mon EXCEPT !.pc = "done", !.todo = <<>>,
                                  !.notification = NoNotification, !.next_cb = 0,
                                  !.tasks = @ - 1, !.stopped = TRUE]
            /\ cb_log' = Returned("cancelled")
       ELSE /\ mon' = [mon EXCEPT !.stopped = TRUE]
            /\ UNCHANGED cb_log
    /\ UNCHANGED <<alerts, triggered_alerts, callbacks, alLeaves>>

-----------------------------------------------------------------------------
(* core/analytics.py: AnalyticsEngine.  A price series is the list of (ts, close)  *)
(* that get_price_series returns, in index order; the two calls of a computation  *)
(* read the same buffers, as no handler runs between them.  The regressions are    *)
(* library calls: on the exact values of the model the three estimators are taken *)
(* to give the least-squares slope, rounded down to a whole number.                *)

\* the index of a series and its value at a timestamp of the index
IndexOf(prices) == {prices[i].ts : i \in DOMAIN prices}
ValueAt(prices, t) == prices[CHOOSE i \in DOMAIN prices : prices[i].ts = t].close

\* pd.DataFrame({'a': prices_a, 'b': prices_b}).dropna(): the rows of the union of
\* the indexes, in index order, that have a value in both columns
aligned(prices_a, prices_b) ==
    LET both == {t \in IndexOf(prices_a) \cap IndexOf(prices_b) :
                    ValueAt(prices_a, t) # NaN /\ ValueAt(prices_b, t) # NaN}
        idx  == SortedSeq(both)
    IN  [k \in DOMAIN idx |->
            [ts |-> idx[k], a |-> ValueAt(prices_a, idx[k]), b |-> ValueAt(prices_b, idx[k])]]

\* _ols_hedge_ratio: the slope of OLS(y, [1, x]).fit(); with a constant x the
\* design matrix has rank 1 and the pseudo-inverse gives the solution of least norm
_ols_hedge_ratio(rows) ==
    LET n   == Len(rows)
        Sx  == SumSeq([k \in DOMAIN rows |-> rows[k].b])
        Sy  == SumSeq([k \in DOMAIN rows |-> rows[k].a])
        Sxy == SumSeq([k \in DOMAIN rows |-> rows[k].a * rows[k].b])
        Sxx == SumSeq([k \in DOMAIN rows |-> rows[k].b * rows[k].b])
        den == n * Sxx - Sx * Sx
        c   == rows[1].b
    IN  IF den = 0 THEN (Sy * c) \div (n * (1 + c * c))
        ELSE (n * Sxy - Sx * Sy) \div den

\* the body of the try of one window: the ratio, or the exception of the
\* regression.  HuberRegressor.fit raises ValueError when its solver fails;
\* failed says whether it does on this window
hedge_fit(method, rows, failed) ==
    IF method \in {"OLS", "ols"} THEN [raised |-> FALSE, value |-> _ols_hedge_ratio(rows)]
    ELSE IF method \in {"HUBER", "huber"}
    THEN IF failed THEN [raised |-> TRUE, value |-> None]
         ELSE [raised |-> FALSE, value |-> _ols_hedge_ratio(rows)]
    ELSE IF method \in {"THEIL-SEN", "theil-sen"}
    THEN [raised |-> FALSE, value |-> _ols_hedge_ratio(rows)]
    ELSE IF method \in {"KALMAN", "kalman"}
    THEN [raised |-> FALSE, value |-> _ols_hedge_ratio(rows)]
    ELSE [raised |-> FALSE, value |-> 1]

\* the member of a set of one value
TheOne(S) == CHOOSE x \in S : TRUE

\* the rolling windows of compute_hedge_ratio over the joined frame: a point for
\* every window whose regression returns
hedge_points(df, window, method, failing) ==
    LET effective_window == IF window < Len(df) THEN window ELSE Len(df)
        fit(k) == hedge_fit(method, SubSeq(df, k, k + effective_window - 1), k \in failing)
        done == SelectSeq([k \in 1..(Len(df) - effective_window + 1) |-> k],
                          LAMBDA k : ~fit(k).raised)
    IN  [j \in DOMAIN done |->
            [ts |-> df[done[j] + effective_window - 1].ts, value |-> fit(done[j]).value]]

\* compute_hedge_ratio on the two series it read; failing is the set of windows,
\* counted from 1, on which the Huber regression raises
compute_hedge_ratio(prices_a, prices_b, window, method, failing) ==
    IF Len(prices_a) < 2 \/ Len(prices_b) < 2 THEN <<>>
    ELSE TheOne({IF Len(df) < 2 THEN <<>> ELSE hedge_points(df, window, method, failing) :
                    df \in {aligned(prices_a, prices_b)}})

\* the loop of compute_spread taking the prices by position, the k-th prices of
\* the two series for the k-th hedge ratio
spread_points_by_position(hedge_ratios, prices_a, prices_b) ==
    LET found == SelectSeq(hedge_ratios,
                           LAMBDA hr : hr.ts \in IndexOf(prices_a) \cap IndexOf(prices_b))
    IN  [k \in DOMAIN found |->
            [ts |-> found[k].ts,
             value |-> prices_a[k].close - found[k].value * prices_b[k].close]]

\* the loop of compute_spread: for every hedge ratio whose timestamp is in both
\* indexes, prices_a[ts] - value * prices_b[ts]
spread_points(hedge_ratios, prices_a, prices_b) ==
    LET found == SelectSeq(hedge_ratios,
                           LAMBDA hr : hr.ts \in IndexOf(prices_a) \cap IndexOf(prices_b))
    IN  [k \in DOMAIN found |->
            [ts |-> found[k].ts,
             value |-> ValueAt(prices_a, found[k].ts) -
                       found[k].value * ValueAt(prices_b, found[k].ts)]]

\* compute_spread
compute_spread(prices_a, prices_b, window, method, failing) ==
    TheOne({spread_points(hedge_ratios, prices_a, prices_b) :
               hedge_ratios \in {compute_hedge_ratio(prices_a, prices_b, window, method,
                                                     failing)}})

\* the least whole number whose square is not below x
CeilSqrt(x) == Min({r \in 0..x : r * r >= x})

\* rolling(window=w, min_periods=w).mean() at row i: nan before row w
rolling_mean(values, w, i) ==
    IF i < w THEN NaN
    ELSE SumSeq(SubSeq(values, i - w + 1, i)) \div w

\* rolling(window=w, min_periods=w).std() at row i, the sample deviation: nan
\* before row w and for a window of one row; 0 exactly when the rows are equal
rolling_std(values, w, i) ==
    IF i < w \/ w < 2 THEN NaN
    ELSE LET rows == SubSeq(values, i - w + 1, i)
             S    == SumSeq(rows)
             SS   == SumSeq([k \in DOMAIN rows |-> rows[k] * rows[k]])
         IN  CeilSqrt((w * SS - S * S) \div (w * (w - 1)))

\* helpers.safe_division
safe_division(numerator, denominator, default) ==
    IF denominator = 0 \/ denominator = NaN \/ numerator = NaN THEN default
    ELSE numerator \div denominator

\* the rolling z-score with a point for every row of the spreads, the rows
\* whose mean or deviation is unknown included
zscore_points_keeps_unknown(spreads, window) ==
    LET effective_window == IF window < Len(spreads) THEN window ELSE Len(spreads)
        values == [k \in DOMAIN spreads |-> spreads[k].value]
    IN  [j \in DOMAIN spreads |->
            [ts |-> spreads[j].ts,
             value |-> safe_division(
                 100 * (values[j] - rolling_mean(values, effective_window, j)),
                 rolling_std(values, effective_window, j), 0)]]

\* the rolling z-score of compute_zscore over the spreads: a point for every row
\* whose rolling mean and deviation are known; the scores are counted in hundredths
zscore_points(spreads, window) ==
    LET effective_window == IF window < Len(spreads) THEN window ELSE Len(spreads)
        values == [k \in DOMAIN spreads |-> spreads[k].value]
        known  == SelectSeq([k \in DOMAIN spreads |-> k],
                            LAMBDA k : /\ rolling_mean(values, effective_window, k) # NaN
                                       /\ rolling_std(values, effective_window, k) # NaN)
    IN  [j \in DOMAIN known |->
            [ts |-> spreads[known[j]].ts,
             value |-> safe_division(
                 100 * (values[known[j]] - rolling_mean(values, effective_window, known[j])),
                 rolling_std(values, effective_window, known[j]), 0)]]

\* compute_zscore
compute_zscore(prices_a, prices_b, window, method, failing) ==
    TheOne({IF Len(spreads) < 2 THEN <<>> ELSE zscore_points(spreads, window) :
               spreads \in {compute_spread(prices_a, prices_b, window, method, failing)}})

\* the least number of spread points compute_adf_test runs the test on
MinAdfPoints == 20

\* the neutral result of compute_adf_test; a p-value is counted in hundredths
NeutralAdf == [stat |-> 0, pvalue |-> 100]

\* compute_adf_test that runs the test on any series of two points or more
compute_adf_test_on_short_series(prices_a, prices_b, window, method, failing, adf) ==
    TheOne({IF Len(spreads) < 2 THEN [result |-> NeutralAdf, ran |-> FALSE]
            ELSE IF adf.raised THEN [result |-> NeutralAdf, ran |-> TRUE]
            ELSE [result |-> [stat |-> adf.stat, pvalue |-> adf.pvalue], ran |-> TRUE] :
               spreads \in {compute_spread(prices_a, prices_b, window, method, failing)}})

\* compute_adf_test: adfuller is a library call, adf is what it does on the
\* spread values (it raises, or returns a statistic and a p-value); ran records
\* whether it was called
compute_adf_test(prices_a, prices_b, window, method, failing, adf) ==
    TheOne({IF Len(spreads) < MinAdfPoints THEN [result |-> NeutralAdf, ran |-> FALSE]
            ELSE IF adf.raised THEN [result |-> NeutralAdf, ran |-> TRUE]
            ELSE [result |-> [stat |-> adf.stat, pvalue |-> adf.pvalue], ran |-> TRUE] :
               spreads \in {compute_spread(prices_a, prices_b, window, method, failing)}})

\* rolling(window=w, min_periods=w).corr at row i of the joined frame, in
\* hundredths: nan before row w and where a column does not vary in the window
rolling_corr(df, w, i) ==
    IF i < w THEN NaN
    ELSE LET rows == SubSeq(df, i - w + 1, i)
             Sa   == SumSeq([k \in DOMAIN rows |-> rows[k].a])
             Sb   == SumSeq([k \in DOMAIN rows |-> rows[k].b])
             Sab  == SumSeq([k \in DOMAIN rows |-> rows[k].a * rows[k].b])
             Saa  == SumSeq([k \in DOMAIN rows |-> rows[k].a * rows[k].a])
             Sbb  == SumSeq([k \in DOMAIN rows |-> rows[k].b * rows[k].b])
             var_a == w * Saa - Sa * Sa
             var_b == w * Sbb - Sb * Sb
         IN  IF var_a = 0 \/ var_b = 0 THEN NaN
             ELSE (100 * (w * Sab - Sa * Sb)) \div CeilSqrt(var_a * var_b)

\* the loop of compute_rolling_correlation over the joined frame: a point for
\* every row whose correlation is known
correlation_points(df, window) ==
    LET effective_window == IF window < Len(df) THEN window ELSE Len(df)
        known == SelectSeq([k \in DOMAIN df |-> k],
                           LAMBDA k : rolling_corr(df, effective_window, k) # NaN)
    IN  [j \in DOMAIN known |->
            [ts |-> df[known[j]].ts, value |-> rolling_corr(df, effective_window, known[j])]]

\* compute_rolling_correlation
compute_rolling_correlation(prices_a, prices_b, window) ==
    TheOne({IF Len(df) < 2 THEN <<>> ELSE correlation_points(df, window) :
               df \in {aligned(prices_a, prices_b)}})

\* what raises in the five computations of a call of compute_pair_analytics: a read
\* of a price series (its resampling), the regression of a window, the test
RaisedIn(prices_a, prices_b, window, method, failing, adf, read_raises) ==
    IF read_raises THEN {"read"}
    ELSE LET df == aligned(prices_a, prices_b)
             effective_window == IF window < Len(df) THEN window ELSE Len(df)
         IN  {"regression" : k \in {k \in failing :
                  /\ Len(prices_a) >= 2 /\ Len(prices_b) >= 2 /\ Len(df) >= 2
                  /\ method \in {"HUBER", "huber"}
                  /\ k <= Len(df) - effective_window + 1}}
             \cup {"adf" : x \in {x \in {adf} :
                  /\ x.raised
                  /\ compute_adf_test(prices_a, prices_b, window, method, failing, adf).ran}}

\* the result that has no key
EmptyResult == [x \in {} |-> None]

\* compute_pair_analytics: pair is the list pair.split("-") gives; an exception
\* that leaves one of the five computations is caught at line 469
compute_pair_analytics(pair, prices_a, prices_b, window, method, failing, adf, read_raises) ==
    IF Len(pair) # 2 THEN EmptyResult
    ELSE IF read_raises THEN [pair |-> pair, error |-> "read"]
    ELSE [pair         |-> pair,
          hedge_ratio  |-> compute_hedge_ratio(prices_a, prices_b, window, method, failing),
          spread       |-> compute_spread(prices_a, prices_b, window, method, failing),
          zscore       |-> compute_zscore(prices_a, prices_b, window, method, failing),
          rolling_corr |-> compute_rolling_correlation(prices_a, prices_b, window),
          adf          |-> compute_adf_test(prices_a, prices_b, window, method, failing,
                                            adf).result]

\* a call of compute_hedge_ratio with what its two reads return
ComputeHedgeRatio(prices_a, prices_b, window, method, failing) ==
    /\ ret' = [op |-> "compute_hedge_ratio", prices_a |-> prices_a, prices_b |-> prices_b,
               window |-> window, method |-> method, failing |-> failing,
               value |-> compute_hedge_ratio(prices_a, prices_b, window, method, failing)]
    /\ UNCHANGED <<tick_buffers, tick_counts, last_tick_time, ohlcv_cache, added, loop_pc,
                   notDm>>

\* a call of compute_zscore with what its reads return
ComputeZscore(prices_a, prices_b, window, method, failing) ==
    /\ ret' = [op |-> "compute_zscore", prices_a |-> prices_a, prices_b |-> prices_b,
               window |-> window, method |-> method, failing |-> failing,
               value |-> compute_zscore(prices_a, prices_b, window, method, failing)]
    /\ UNCHANGED <<tick_buffers, tick_counts, last_tick_time, ohlcv_cache, added, loop_pc,
                   notDm>>

\* a call of compute_adf_test with what its reads and the test return
ComputeAdfTest(prices_a, prices_b, window, method, failing, adf) ==
    /\ ret' = [op |-> "compute_adf_test", prices_a |-> prices_a, prices_b |-> prices_b,
               window |-> window, method |-> method, failing |-> failing, adf |-> adf,
               value |-> compute_adf_test(prices_a, prices_b, window, method, failing, adf)]
    /\ UNCHANGED <<tick_buffers, tick_counts, last_tick_time, ohlcv_cache, added, loop_pc,
                   notDm>>

\* a call of compute_pair_analytics with what its reads and the test return;
\* raised is the set of places where an exception was raised during the call
ComputePairAnalytics(pair, prices_a, prices_b, window, method, failing, adf, read_raises) ==
    /\ ret' = [op |-> "compute_pair_analytics", pair |-> pair,
               prices_a |-> prices_a, prices_b |-> prices_b,
               window |-> window, method |-> method, failing |-> failing, adf |-> adf,
               raised |-> IF Len(pair) # 2 THEN {}
                          ELSE RaisedIn(prices_a, prices_b, window, method, failing, adf,
                                        read_raises),
               value |-> compute_pair_analytics(pair, prices_a, prices_b, window, method,
                                                failing, adf, read_raises)]
    /\ UNCHANGED <<tick_buffers, tick_counts, last_tick_time, ohlcv_cache, added, loop_pc,
                   notDm>>

-----------------------------------------------------------------------------
(* tasks/analytics_processor.py: AnalyticsProcessor.  A pair is kept as the two  *)
(* symbols of its string.  The keys of tick_buffers are never deleted, so the    *)
(* order of two symbols in get_active_symbols() does not change.  A pass has no   *)
(* await that suspends: the loop suspends only in its sleep.                      *)

\* the parameters of _process_pair
ProcessorTimeframe == "1m"
ProcessorWindow == 60
ProcessorRegression == "OLS"

\* the limit of the reads of the price series: max(window * 3, window + 20)
SeriesLimit(window) == Max({window * 3, window + 20})

\* _generate_pairs: every pair of a symbol and a later one, by the first and
\* then by the second
_generate_pairs(symbols) ==
    LET n   == Len(symbols)
        idx == SortedSeq({p[1] * (n + 1) + p[2] :
                             p \in {q \in (1..n) \X (1..n) : q[1] < q[2]}})
    IN  [k \in DOMAIN idx |-> <<symbols[idx[k] \div (n + 1)], symbols[idx[k] % (n + 1)]>>]

\* compute_pair_analytics on the buffers: the reads resample the ticks of both
\* symbols and store the candles; a read that raises leaves the cache as it is
pair_analytics_of(bufs, cache, pair, window, method, adf, read_raises) ==
    TheOne({TheOne({[bufs   |-> IF read_raises THEN bufs ELSE rb.bufs,
                     cache  |-> IF read_raises THEN cache ELSE rb.cache,
                     result |-> compute_pair_analytics(pair, ra.result, rb.result, window,
                                                       method, {}, adf, read_raises)] :
                       rb \in {get_price_series(ra.bufs, ra.cache, pair[2],
                                                ProcessorTimeframe, SeriesLimit(window),
                                                TRUE)}}) :
               ra \in {get_price_series(bufs, cache, pair[1], ProcessorTimeframe,
                                        SeriesLimit(window), TRUE)}})

\* the end of _process_pair: the result r of the computation is stored unless it is
\* empty or has an error
store_result(st, pair, now, r) ==
    IF r.result = EmptyResult \/ "error" \in DOMAIN r.result
    THEN [st EXCEPT !.bufs = r.bufs, !.cache = r.cache]
    ELSE [bufs    |-> r.bufs,
          cache   |-> r.cache,
          results |-> Put(st.results, pair,
                          [cache_key |-> <<pair, ProcessorTimeframe, ProcessorWindow,
                                           ProcessorRegression>>,
                           data |-> r.result, timestamp |-> now])]

\* _process_pair on the buffers, the cache and the stored results st: a pair that
\* has a stored result with its cache key is skipped
_process_pair(st, pair, now, adf, read_raises) ==
    IF /\ pair \in DOMAIN st.results
       /\ st.results[pair].cache_key = <<pair, ProcessorTimeframe, ProcessorWindow,
                                         ProcessorRegression>>
    THEN st
    ELSE TheOne({store_result(st, pair, now, r) :
                    r \in {pair_analytics_of(st.bufs, st.cache, pair, ProcessorWindow,
                                             ProcessorRegression, adf, read_raises)}})

\* the loop of _process_all_pairs over the pairs
RECURSIVE process_pairs(_, _, _, _, _)
process_pairs(st, pairs, now, adf, read_raises) ==
    IF pairs = <<>> THEN st
    ELSE TheOne({process_pairs(done, Tail(pairs), now, adf, read_raises) :
                    done \in {_process_pair(st, Head(pairs), now, adf, read_raises)}})

\* _process_all_pairs
_process_all_pairs(st, now, adf, read_raises) ==
    TheOne({IF Len(symbols) < 2 THEN st
            ELSE process_pairs(st, _generate_pairs(symbols), now, adf, read_raises) :
               symbols \in {SortedSymbols(get_active_symbols(st.bufs))}})

\* start(): creates the task; on a running processor it returns at once
ProcessorStart ==
    /\ ~ap.running
    /\ ap' = [ap EXCEPT !.running = TRUE, !.pc = "created"]
    /\ UNCHANGED <<latest_results, dmVars, alVars, hdVars, mgVars, wsVars, rsVars, thVars>>

\* _process_loop: the task takes its first step, or its sleep ends, and a pass
\* runs; the time of the pass is its number
ProcessorPass(adf, read_raises) ==
    /\ ap.pc \in {"created", "sleeping"}
    /\ ap.running
    /\ \E st \in {_process_all_pairs([bufs |-> tick_buffers, cache |-> ohlcv_cache,
                                      results |-> latest_results],
                                     ap.passes + 1, adf, read_raises)} :
          /\ tick_buffers' = st.bufs
          /\ ohlcv_cache' = st.cache
          /\ latest_results' = st.results
    /\ ap' = [ap EXCEPT !.pc = "sleeping", !.passes = @ + 1,
                        !.raised = read_raises /\ Len(SortedSymbols(
                                       get_active_symbols(tick_buffers))) >= 2]
    /\ ret' = [op |-> "_process_loop", value |-> None]
    /\ UNCHANGED <<tick_counts, last_tick_time, added, loop_pc,
                   alVars, hdVars, mgVars, wsVars, rsVars, thVars>>

\* stop(): clears running and cancels the task, which is in its sleep or has not
\* begun; the CancelledError ends the task
ProcessorStop ==
    /\ ap.running
    /\ ap' = [ap EXCEPT !.running = FALSE, !.pc = "done"]
    /\ UNCHANGED <<latest_results, dmVars, alVars, hdVars, mgVars, wsVars, rsVars, thVars>>

-----------------------------------------------------------------------------
(* Bounded environments *)

\* the trades of the feed: the later trade has the higher price
DmTrades == {[price |-> 1, qty |-> 1, ts |-> 0], [price |-> 2, qty |-> 1, ts |-> 1]}

DmTick == {[symbol |-> s, price |-> t.price, qty |-> t.qty, ts |-> t.ts] :
             s \in Symbols, t \in DmTrades}

FromTss == {None, 1}
ToTss   == {None, 0}

TotalAdds == SumSeq([i \in 1..Cardinality(Symbols) |->
                        tick_counts[SortedSymbols(Symbols)[i]]])

(* The tick buffer alone: add_tick, the reads and clear_buffer *)

MaxAdds == 3

NextBuf ==
    \/ \E tick \in DmTick, now \in {1, 2} : TotalAdds < MaxAdds /\ AddTick(tick, now)
    \/ \E symbol \in RawSymbols, limit \in {None, 0, 1, 2},
          from_ts \in FromTss, to_ts \in ToTss :
          GetTicks(symbol, limit, from_ts, to_ts)
    \/ \E symbol \in RawSymbols : GetLatestPrice(symbol)
    \/ GetActiveSymbols
    \/ \E symbol \in RawSymbols : ClearBuffer(symbol)
    \/ ClearAll

SpecBuf == Init /\ [][NextBuf]_vars

(* The tick buffer with the resampling cache *)

MaxCachedAdds == 2

\* the pairs whose resample raises in a pass: none, or one
PassFailures == {{}} \cup {{<<s, tf>>} : s \in Symbols, tf \in Timeframes}

Next ==
    \/ \E tick \in DmTick : TotalAdds < MaxCachedAdds /\ AddTick(tick, 1)
    \/ \E symbol \in Symbols, timeframe \in Timeframes, limit \in {None, 1},
          from_ts \in FromTss, to_ts \in ToTss, force_resample \in BOOLEAN :
          GetOhlcv(symbol, timeframe, limit, from_ts, to_ts, force_resample)
    \/ \E symbol \in Symbols, timeframe \in Timeframes, limit \in {None, 1},
          force_resample \in BOOLEAN :
          GetPriceSeries(symbol, timeframe, limit, force_resample)
    \/ \E symbol \in RawSymbols : ClearBuffer(symbol)
    \/ ClearAll
    \/ \E failing \in PassFailures : ResamplePass(failing)
    \/ CancelLoop

Spec == Init /\ [][Next]_vars

(* The tick buffer and the cache under interleaved calls *)

MaxThreadAdds == 2

\* the entry the threads contend for; ticks of the other symbol arrive as well
ThSymbols == {"BTCUSDT"}
ThTimeframes == {"1s"}

NextTh ==
    \/ \E tick \in DmTick : TotalAdds < MaxThreadAdds /\ AddTick(tick, 1)
    \/ \E t \in Threads, kind \in {"get_ohlcv", "get_price_series", "clear_buffer"},
          symbol \in ThSymbols, timeframe \in ThTimeframes, force_resample \in BOOLEAN :
          /\ kind = "clear_buffer" => ~force_resample
          /\ ThCall(t, kind, symbol, timeframe, None, force_resample)
    \/ \E t \in Threads : ThLookup(t)
    \/ \E t \in Threads : ThRead(t)
    \/ \E t \in Threads : ThSnapshot(t)
    \/ \E t \in Threads : ThStore(t)
    \/ \E t \in Threads : ThReturn(t)
    \/ \E t \in Threads : ThClearBuffer(t)
    \/ \E t \in Threads : ThClearCache(t)

SpecTh == Init /\ [][NextTh]_vars

(* The stream client of BTCUSDT with the messages of its connection *)

TradeData(T, p, q) ==
    Data(("e" :> "trade") @@ ("T" :> T) @@ ("s" :> "BTCUSDT") @@ ("p" :> p) @@ ("q" :> q))

TickerData(c, P) ==
    Data(("e" :> "24hrTicker") @@ ("E" :> "1000") @@ ("s" :> "BTCUSDT") @@ ("p" :> "1")
         @@ ("P" :> P) @@ ("c" :> c) @@ ("o" :> "1") @@ ("h" :> "2") @@ ("l" :> "1")
         @@ ("v" :> "1") @@ ("q" :> "2"))

Msg(json, stream, data) == [json |-> json, stream |-> stream, data |-> data]

\* two trades and a ticker of the combined stream, a trade outside it
GoodMessages ==
    { Msg("object", "btcusdt@trade", TradeData("0", "1", "1")),
      Msg("object", "btcusdt@trade", TradeData("1000", "2", "1")),
      Msg("object", NoStream, TradeData("1000", "2", "1")),
      Msg("object", "btcusdt@ticker", TickerData("2", "1")) }

\* text that is not JSON, JSON that is not an object, events with a key missing or
\* a value that is not a number, an event of another type, and an event on the
\* stream of the other type
BadMessages ==
    { Msg("invalid", NoStream, Data(<<>>)),
      Msg("list", NoStream, Data(<<>>)),
      Msg("object", "btcusdt@trade", TradeData("0", "1", Absent)),
      Msg("object", "btcusdt@trade", TradeData(Absent, "1", "1")),
      Msg("object", "btcusdt@trade", TradeData("0", "abc", "1")),
      Msg("object", "btcusdt@trade", TradeData("abc", "1", "1")),
      Msg("object", "btcusdt@trade", Data(("e" :> "aggTrade") @@ ("s" :> "BTCUSDT"))),
      Msg("object", "btcusdt@ticker", TradeData("0", "1", "1")),
      Msg("object", NoStream, Data(("s" :> "BTCUSDT"))),
      Msg("object", "btcusdt@ticker", TickerData(Absent, "1")),
      Msg("object", "btcusdt@ticker", TickerData("2", "abc")) }

Messages == GoodMessages \cup BadMessages

Frontends == {"f1"}

MaxMsgs == 3

MaxBackoffs == 1

NextMsg ==
    \/ WsConnect
    \/ ListenConnected
    \/ Len(slept) < MaxBackoffs /\ ListenConnectFailed
    \/ \E m \in Messages, db_ok \in BOOLEAN :
          Len(msg_log) < MaxMsgs /\ ListenReceive(m, db_ok, 1)
    \/ \E sent_ok \in BOOLEAN : ListenSent(sent_ok)
    \/ Len(slept) < MaxBackoffs /\ ListenClosed
    \/ ListenSlept
    \/ ListenCancelled
    \/ DisconnectStart
    \/ DisconnectClosed
    \/ DisconnectCancel
    \/ DisconnectReturn
    \/ \E f \in Frontends : FrontendAccept(f)
    \/ \E f \in Frontends : FrontendGone(f)

SpecMsg == Init /\ [][NextMsg]_vars

\* the event loop runs every task that is ready: the steps of disconnect() and of
\* the cancelled or closed listen task are taken
FairMsg ==
    /\ WF_vars(DisconnectClosed)
    /\ WF_vars(DisconnectCancel)
    /\ WF_vars(DisconnectReturn)
    /\ WF_vars(ListenCancelled)

SpecMsgFair == SpecMsg /\ FairMsg

(* The manager under concurrent subscribe, unsubscribe and disconnect_all calls *)

MaxClients == 3

\* the lists a request subscribes to: one symbol, or two with repeats
SymbolLists == {<<s>> : s \in RawSymbols} \cup {<<s, t>> : s, t \in RawSymbols}

NextMg ==
    \/ \E symbols \in SymbolLists :
          Len(made) + Len(symbols) <= MaxClients /\ SubscribeMultiple(symbols)
    \/ \E u \in {"u1", "u2"}, symbol \in RawSymbols : UnsubscribeStart(u, symbol)
    \/ \E c \in 1..MaxClients : ClientTaskEnds(c)
    \/ \E u \in Callers : UnsubscribeFinish(u)
    \/ DisconnectAllStart
    \/ DisconnectAllChild
    \/ DisconnectAllReturn

SpecMg == Init /\ [][NextMg]_vars

(* The alerts engine with rules, ticks and callbacks arriving while it monitors *)

MaxRules == 2
MaxCallbacks == 2
MaxTicks == 2
MaxAlTicks == 2

\* the rules a request adds: (metric, pair, operator, value)
RuleInputs ==
    {<<"price", "BTCUSDT", ">", 10>>, <<"price", "BTCUSDT", "<", 20>>,
     <<"price", "BTCUSDT", ">=", 20>>, <<"price", "BTCUSDT", "<=", 10>>,
     <<"price", "BTCUSDT", "==", 20>>, <<"price", "BTCUSDT", "!=", 10>>,
     <<"PRICE", " btcusdt", ">", 10>>, <<"zscore", "BTCUSDT-ETHUSDT", ">", 10>>}

\* the rules added after the first
MoreRuleInputs == {<<"price", "BTCUSDT", ">", 10>>, <<"price", "BTCUSDT", "<", 20>>}

AlTicks ==
    {[symbol |-> "BTCUSDT", price |-> p, qty |-> 1, ts |-> 0] : p \in {10, 20}}

Analytics == {None, 20}

\* the monitoring task is not between two suspensions: on the one event loop no
\* other handler runs while it evaluates the rules of a pass
MonitorSuspended == mon.pc # "checking"

\* no pass is running.  A pass works on the list it took and reads no rule's
\* membership, so a rule added or removed during a pass leaves the pass as one
\* added or removed at its sleep does
BetweenPasses == mon.pc \in {"idle", "created", "sleeping", "done"}

NextAl ==
    \/ \E r \in (IF alerts = <<>> THEN RuleInputs ELSE MoreRuleInputs) :
          BetweenPasses /\ Len(alerts) < MaxRules /\ AddAlert(r[1], r[2], r[3], r[4])
    \/ \E alert_id \in 1..MaxRules : BetweenPasses /\ RemoveAlert(alert_id)
    \/ MonitorSuspended /\ ClearTriggeredAlerts
    \/ \E callback \in {"on_alert"} :
          MonitorSuspended /\ Len(callbacks) < MaxCallbacks /\ RegisterCallback(callback)
    \/ \E tick \in AlTicks :
          MonitorSuspended /\ TotalAdds < MaxAlTicks /\ AddTick(tick, 1)
    \/ MonitorSuspended /\ StartMonitoring
    \/ mon.ticks < MaxTicks /\ MonitorBegin
    \/ \E analytic \in Analytics : CheckAlert(mon.ticks, analytic)
    \/ \E result \in {"ok", "raise"} : CallbackReturn(result)
    \/ MonitorSleep
    \/ mon.ticks < MaxTicks /\ MonitorWake
    \/ StopMonitoring

SpecAl == Init /\ [][NextAl]_vars

\* the event loop runs the monitoring task when it is ready, and the callbacks it
\* awaits come back
FairAl ==
    /\ WF_vars(\E analytic \in Analytics : CheckAlert(mon.ticks, analytic))
    /\ WF_vars(\E result \in {"ok", "raise"} : CallbackReturn(result))
    /\ WF_vars(MonitorSleep)

SpecAlFair == SpecAl /\ FairAl

(* The alerts engine with rules removed while a pass is suspended in a callback *)

NextRm ==
    \/ \E r \in MoreRuleInputs :
          MonitorSuspended /\ Len(alerts) < MaxRules /\ AddAlert(r[1], r[2], r[3], r[4])
    \/ \E alert_id \in 1..MaxRules : MonitorSuspended /\ RemoveAlert(alert_id)
    \/ \E tick \in AlTicks :
          MonitorSuspended /\ TotalAdds < MaxAlTicks /\ AddTick(tick, 1)
    \/ MonitorSuspended /\ StartMonitoring
    \/ mon.ticks < MaxTicks /\ MonitorBegin
    \/ CheckAlert(mon.ticks, None)
    \/ \E result \in {"ok", "raise"} : CallbackReturn(result)
    \/ MonitorSleep
    \/ mon.ticks < MaxTicks /\ MonitorWake
    \/ StopMonitoring

SpecRm == Init /\ [][NextRm]_vars

(* The history of notifications and the lists get_triggered_alerts returns *)

MaxPops == 1

\* the limits of a request: none, 0 and two positive ones
HistLimits == {None, 0, 1, 2}

NextHist ==
    \/ \E r \in MoreRuleInputs : alerts = <<>> /\ AddAlert(r[1], r[2], r[3], r[4])
    \/ \E tick \in AlTicks :
          MonitorSuspended /\ TotalAdds < MaxAlTicks /\ AddTick(tick, 1)
    \/ mon.pc = "idle" /\ StartMonitoring
    \/ mon.ticks < MaxTicks /\ MonitorBegin
    \/ \E analytic \in {None} : CheckAlert(mon.ticks, analytic)
    \/ MonitorSleep
    \/ mon.ticks < MaxTicks /\ MonitorWake
    \/ MonitorSuspended /\ ClearTriggeredAlerts
    \/ \E limit \in HistLimits : MonitorSuspended /\ GetTriggeredAlerts(limit)
    \/ MonitorSuspended /\ ret.op = "get_triggered_alerts" /\ ret.popped < MaxPops /\ CallerPops

SpecHist == Init /\ [][NextHist]_vars

(* The pair analytics on bounded price series *)

\* the timestamps of the candles: four minutes
AnTimes == {0, 60, 120, 180}

\* the closes of the second symbol, and two series of the first: one on a line
\* over the second, one off it at its first candle
CloseB  == (0 :> 5) @@ (60 :> 6) @@ (120 :> 8) @@ (180 :> 11)
CloseA1 == (0 :> 13) @@ (60 :> 15) @@ (120 :> 19) @@ (180 :> 25)
CloseA2 == (0 :> 10) @@ (60 :> 15) @@ (120 :> 19) @@ (180 :> 25)

\* the series with these closes on a set of timestamps
SeriesOn(closes, T) ==
    LET idx == SortedSeq(T) IN [k \in DOMAIN idx |-> [ts |-> idx[k], close |-> closes[idx[k]]]]

SeriesA == {SeriesOn(c, T) : c \in {CloseA1, CloseA2}, T \in SUBSET AnTimes}
SeriesB == {SeriesOn(CloseB, T) : T \in SUBSET AnTimes}

MaxWindow == 3

AnWindows == 2..MaxWindow \cup {60}

AnMethods == {"OLS", "huber", "THEIL-SEN", "KALMAN", "none"}

\* the windows on which the Huber regression may fail
AnFailing == SUBSET (1..2)

\* series of candles around the least length of the test: the closes of the
\* second symbol rise unevenly, those of the first lie near a line over them
LongCloseB(k) == 5 + k + (k % 3)
LongCloseA(k) == 2 * LongCloseB(k) + 3 + (k % 2)
LongSeries(close(_), L) == [k \in 1..L |-> [ts |-> 60 * (k - 1), close |-> close(k)]]

\* the pairs of series of a test: short ones, and long ones that give a window
\* of 2 or 3 one spread point fewer than the test needs, or just enough
AdfPairs ==
    {<<SeriesOn(CloseA1, T), SeriesOn(CloseB, T)>> : T \in SUBSET AnTimes}
       \cup {<<LongSeries(LongCloseA, L), LongSeries(LongCloseB, L)>> :
                L \in (MinAdfPoints - 1)..(MinAdfPoints + 2)}

\* what adfuller does: it raises, or returns a statistic and a p-value
AdfOutcomes ==
    {[raised |-> TRUE, stat |-> None, pvalue |-> None],
     [raised |-> FALSE, stat |-> -350, pvalue |-> 1],
     [raised |-> FALSE, stat |-> -120, pvalue |-> 65]}

\* the pairs of series of a pair computation: short ones on any timestamps, and
\* the long ones
PairSeries ==
    {<<SeriesOn(CloseA2, Ta), SeriesOn(CloseB, Tb)>> : Ta \in SUBSET AnTimes,
                                                        Tb \in SUBSET AnTimes}
       \cup {<<LongSeries(LongCloseA, L), LongSeries(LongCloseB, L)>> :
                L \in (MinAdfPoints - 1)..(MinAdfPoints + 2)}

\* the pair strings, split at "-": a pair, and a string without a "-"
PairStrings == {<<"BTCUSDT", "ETHUSDT">>, <<"BTCUSDT">>}

\* what goes wrong in a call: nothing, the Huber regression on some windows, the
\* test, or a read
NoFault == [failing |-> {}, adf |-> [raised |-> FALSE, stat |-> -350, pvalue |-> 1],
            read_raises |-> FALSE]
Faults ==
    {NoFault, [NoFault EXCEPT !.read_raises = TRUE],
     [NoFault EXCEPT !.adf = [raised |-> TRUE, stat |-> None, pvalue |-> None]]}
       \cup {[NoFault EXCEPT !.failing = f] : f \in AnFailing}

\* a computation is a function of what it reads: one call is made from the
\* initial state
NextAn ==
    \/ /\ ret.op = "init"
       /\ \E prices_a \in SeriesA, prices_b \in SeriesB, window \in AnWindows,
             method \in AnMethods, failing \in AnFailing :
          /\ method \notin {"HUBER", "huber"} => failing = {}
          /\ ComputeHedgeRatio(prices_a, prices_b, window, method, failing)
    \/ /\ ret.op = "init"
       /\ \E prices_a \in SeriesA, prices_b \in SeriesB, window \in AnWindows,
             method \in AnMethods, failing \in AnFailing :
          /\ method \notin {"HUBER", "huber"} => failing = {}
          /\ ComputeZscore(prices_a, prices_b, window, method, failing)
    \/ /\ ret.op = "init"
       /\ \E pr \in AdfPairs, window \in AnWindows, method \in AnMethods,
             failing \in AnFailing, adf \in AdfOutcomes :
          /\ method \notin {"HUBER", "huber"} => failing = {}
          /\ ComputeAdfTest(pr[1], pr[2], window, method, failing, adf)
    \/ /\ ret.op = "init"
       /\ \E pair \in PairStrings, pr \in PairSeries, window \in AnWindows,
             method \in AnMethods, fault \in Faults :
          /\ method \notin {"HUBER", "huber"} => fault.failing = {}
          /\ Len(pair) # 2 => fault = NoFault /\ method = "OLS" /\ window = 60
          /\ Len(pr[1]) >= MinAdfPoints - 1 => window <= MaxWindow
          /\ ComputePairAnalytics(pair, pr[1], pr[2], window, method, fault.failing,
                                  fault.adf, fault.read_raises)

SpecAn == Init /\ [][NextAn]_vars

(* The analytics processor over the buffers of two symbols *)

MaxApAdds == 4
MaxPasses == 3

\* a tick of each symbol in each of two minutes
ApTicks ==
    {[symbol |-> "BTCUSDT", price |-> 10, qty |-> 1, ts |-> 0],
     [symbol |-> "BTCUSDT", price |-> 15, qty |-> 1, ts |-> 60],
     [symbol |-> "ETHUSDT", price |-> 5, qty |-> 1, ts |-> 0],
     [symbol |-> "ETHUSDT", price |-> 6, qty |-> 1, ts |-> 60]}

NextAp ==
    \/ \E tick \in ApTicks : TotalAdds < MaxApAdds /\ AddTick(tick, 1)
    \/ ProcessorStart
    \/ \E read_raises \in BOOLEAN :
          ap.passes < MaxPasses /\ ProcessorPass(NoFault.adf, read_raises)
    \/ ProcessorStop

SpecAp == Init /\ [][NextAp]_vars

(* _evaluate_condition on values around the tolerance of "==" *)

\* the actual values: nan, and values at distances 0, 9e-7, 1e-6 and 1e-5 from the
\* thresholds
EvActuals == {NaN, 0, 90, 91, 99, 100, 101, 109, 110, 200}

EvThresholds == {0, 100}

\* the operators create_alert accepts, and two it does not
EvOperators == {">", "<", ">=", "<=", "==", "!=", "="}

NextEv ==
    \E actual \in EvActuals, operator \in EvOperators, threshold \in EvThresholds :
        EvaluateCondition(actual, operator, threshold)

SpecEv == Init /\ [][NextEv]_vars

-----------------------------------------------------------------------------
(* Tick buffer *)

Buffer(s) == Get(tick_buffers, s, <<>>)

\* C1: for every symbol, the buffer holds exactly the last min(N, number of ticks
\* added since the last clear) added ticks, in insertion order, N being the buffer
\* capacity; and an unfiltered get_ticks returns exactly those.
C1_FifoEviction ==
    \A s \in Symbols :
        /\ Buffer(s) = LastN(added[s], tick_buffer_size)
        /\ Len(Buffer(s)) = Min({tick_buffer_size, Len(added[s])})
        /\ filter_ticks(Buffer(s), None, None, None) = LastN(added[s], tick_buffer_size)

\* C1 witness: a symbol that received more ticks than the capacity and lost the oldest
C1_Witness ==
    \E s \in Symbols :
        /\ Len(added[s]) > tick_buffer_size
        /\ Len(Buffer(s)) = tick_buffer_size
        /\ Buffer(s) = Tail(added[s])
        /\ Buffer(s)[1] # added[s][1]

\* what C9 says get_ticks returns: the ticks with from_ts <= ts <= to_ts in buffer
\* order, cut to the most recent `limit` of them when a limit is given
TicksInRange(buf, limit, from_ts, to_ts) ==
    LET inr == SelectSeq(buf, LAMBDA t : /\ (from_ts = None \/ t.ts >= from_ts)
                                         /\ (to_ts = None \/ t.ts <= to_ts))
    IN  IF limit = None THEN inr ELSE LastN(inr, limit)

\* C9: get_ticks(S, limit, from_ts, to_ts) returns the ticks of S whose timestamp
\* lies in [from_ts, to_ts], in buffer order, cut to the most recent `limit` of
\* them when a limit is given, and leaves the tick sequence, tick count and
\* last-update time of every symbol unchanged.
C9_GetTicksSnapshot ==
    [][\A symbol \in RawSymbols, limit \in {None, 0, 1, 2},
          from_ts \in FromTss, to_ts \in ToTss :
          GetTicks(symbol, limit, from_ts, to_ts) =>
              /\ ret'.value = TicksInRange(Buffer(normalize_symbol(symbol)),
                                           limit, from_ts, to_ts)
              /\ \A s \in Symbols : Get(tick_buffers', s, <<>>) = Buffer(s)
              /\ tick_counts' = tick_counts
              /\ last_tick_time' = last_tick_time]_vars

-----------------------------------------------------------------------------
(* Resampling cache *)

\* the state right after clear_buffer(sym), against the state before it
ClearedOnly(sym) ==
    /\ Get(tick_buffers', sym, <<>>) = <<>>
    /\ get_latest_price(tick_buffers', sym) = None
    /\ sym \notin get_active_symbols(tick_buffers')
    /\ \A tf \in Timeframes : <<sym, tf>> \notin DOMAIN ohlcv_cache'
    /\ \A o \in Symbols \ {sym} : Get(tick_buffers', o, <<>>) = Buffer(o)
    /\ \A k \in DOMAIN ohlcv_cache :
          k[1] # sym => k \in DOMAIN ohlcv_cache' /\ ohlcv_cache'[k] = ohlcv_cache[k]
    /\ DOMAIN ohlcv_cache' \subseteq DOMAIN ohlcv_cache

\* C2: after clear_buffer(S) the buffer of S is empty, get_latest_price(S) is None,
\* S is not an active symbol and the cache has no entry (S, tf), while the buffers
\* and cache entries of the other symbols are as before; clear_buffer() without a
\* symbol empties every buffer and the whole cache.
C2_ClearInvalidates ==
    [][/\ \A symbol \in RawSymbols :
             ClearBuffer(symbol) => ClearedOnly(normalize_symbol(symbol))
       /\ ClearAll =>
             /\ \A s \in Symbols : Get(tick_buffers', s, <<>>) = <<>>
             /\ get_active_symbols(tick_buffers') = {}
             /\ DOMAIN ohlcv_cache' = {}]_vars

\* C2 witness: BTCUSDT was just cleared after it had ticks, and ETHUSDT keeps its
\* tick and a cache entry
C2_Witness ==
    /\ ret.op = "clear_buffer"
    /\ "BTCUSDT" \in DOMAIN last_tick_time
    /\ "BTCUSDT" \in DOMAIN tick_buffers
    /\ Buffer("BTCUSDT") = <<>>
    /\ tick_counts["BTCUSDT"] = 0
    /\ Buffer("ETHUSDT") # <<>>
    /\ \E tf \in Timeframes : <<"ETHUSDT", tf>> \in DOMAIN ohlcv_cache
    /\ \A tf \in Timeframes : <<"BTCUSDT", tf>> \notin DOMAIN ohlcv_cache

\* C3: on a miss or a forced refresh get_ohlcv stores under (S, tf) the candles of
\* the whole tick snapshot of S, whatever from_ts, to_ts and limit the call has.
C3_CacheIgnoresFilters ==
    [][\A symbol \in Symbols, timeframe \in Timeframes, limit \in {None, 1},
          from_ts \in FromTss, to_ts \in ToTss, force_resample \in BOOLEAN :
          LET sym == normalize_symbol(symbol)
              key == <<sym, timeframe>>
          IN  ( /\ GetOhlcv(symbol, timeframe, limit, from_ts, to_ts, force_resample)
                /\ force_resample \/ key \notin DOMAIN ohlcv_cache
                /\ Buffer(sym) # <<>> ) =>
                  /\ key \in DOMAIN ohlcv_cache'
                  /\ ohlcv_cache'[key] =
                       resample_to_ohlcv(Buffer(sym), timeframe_to_pandas_rule(timeframe))]_vars

\* C4: in every state the program reaches, a get_ohlcv call without force_resample
\* followed directly by a call with the same arguments returns the same candles
\* twice, and the second call leaves the cache as the first call left it.
C4_ResampleIdempotent ==
    \A symbol \in RawSymbols, timeframe \in Timeframes, limit \in {None, 1},
       from_ts \in FromTss, to_ts \in ToTss :
       LET first == get_ohlcv(tick_buffers, ohlcv_cache, symbol, timeframe,
                              limit, from_ts, to_ts, FALSE)
           again == get_ohlcv(first.bufs, first.cache, symbol, timeframe,
                              limit, from_ts, to_ts, FALSE)
       IN  /\ again.result = first.result
           /\ again.cache = first.cache

\* C4 witness: a get_ohlcv call returned candles out of an entry it found or made,
\* with two ticks in the buffer
C4_Witness ==
    /\ ret.op = "get_ohlcv"
    /\ ret.value # <<>>
    /\ Len(Buffer("BTCUSDT")) = 2
    /\ <<"BTCUSDT", "1s">> \in DOMAIN ohlcv_cache
    /\ Len(ohlcv_cache[<<"BTCUSDT", "1s">>]) = 1

\* C5: under every interleaving of get_ohlcv, get_price_series, forced refreshes
\* and clear_buffer, every cache entry (S, tf), and every candle set a reader took
\* from the cache or built, is the complete resample of one non-empty list of ticks
\* of S taken in one snapshot; an entry is never a part of such a result.
C5_AtomicSwap ==
    /\ DOMAIN cache_src = DOMAIN ohlcv_cache
    /\ \A k \in DOMAIN ohlcv_cache :
          /\ cache_src[k] # <<>>
          /\ \A i \in DOMAIN cache_src[k] : normalize_symbol(cache_src[k][i].symbol) = k[1]
          /\ ohlcv_cache[k] = resample_to_ohlcv(cache_src[k], timeframe_to_pandas_rule(k[2]))
    /\ \A t \in Threads :
          th[t].pc = "return" =>
              /\ th[t].ticks # <<>>
              /\ th[t].df = resample_to_ohlcv(th[t].ticks,
                                              timeframe_to_pandas_rule(th[t].tf))

\* C5 witness: a reader holds the two candles of an entry that another thread is
\* about to replace with candles it built from a later snapshot
C5_Witness ==
    \E t, u \in Threads :
        /\ t # u
        /\ th[t].pc = "return" /\ Len(th[t].df) = 2
        /\ th[u].pc = "store" /\ ThKey(u) = ThKey(t)
        /\ ThKey(t) \in DOMAIN ohlcv_cache
        /\ th[u].df # ohlcv_cache[ThKey(t)]

\* C8: a pass of the resample loop leaves, for every symbol with a non-empty buffer
\* and every configured timeframe whose resample did not fail, the cache entry equal
\* to the resample of the buffer; the entries of a failing pair stay as they were;
\* a cancelled loop has exited and makes no further pass.
C8_PeriodicResample ==
    [][/\ \A failing \in PassFailures :
             (ret'.op = "resample_loop" /\ ResamplePass(failing)) =>
                 \A s \in Symbols, tf \in Timeframes :
                     IF <<s, tf>> \in failing
                     THEN /\ (<<s, tf>> \in DOMAIN ohlcv_cache') =
                             (<<s, tf>> \in DOMAIN ohlcv_cache)
                          /\ <<s, tf>> \in DOMAIN ohlcv_cache =>
                                ohlcv_cache'[<<s, tf>>] = ohlcv_cache[<<s, tf>>]
                     ELSE s \in get_active_symbols(tick_buffers') =>
                          /\ <<s, tf>> \in DOMAIN ohlcv_cache'
                          /\ ohlcv_cache'[<<s, tf>>] =
                               resample_to_ohlcv(tick_buffers'[s],
                                                 timeframe_to_pandas_rule(tf))
       /\ CancelLoop => loop_pc' = "exited"
       /\ loop_pc = "exited" =>
             /\ loop_pc' = "exited"
             /\ \A failing \in PassFailures : ~ENABLED ResamplePass(failing)]_vars

\* C8 witness: a pass ran over two active symbols, one resample of ETHUSDT failed,
\* and the other three entries are in the cache
C8_Witness ==
    /\ ret.op = "resample_loop"
    /\ get_active_symbols(tick_buffers) = Symbols
    /\ <<"ETHUSDT", "1m">> \notin DOMAIN ohlcv_cache
    /\ <<"ETHUSDT", "1s">> \in DOMAIN ohlcv_cache
    /\ <<"BTCUSDT", "1s">> \in DOMAIN ohlcv_cache
    /\ <<"BTCUSDT", "1m">> \in DOMAIN ohlcv_cache

-----------------------------------------------------------------------------
(* Stream client *)

\* the state of the connection that a position of the listen task stands for
Phase(pc) ==
    CASE pc \in {"idle", "done"}         -> "Disconnected"
      [] pc = "connecting"               -> "Connecting"
      [] pc \in {"connected", "sending"} -> "Connected"
      [] pc = "backoff"                  -> "Backoff"

LifecycleEdges ==
    { <<"Disconnected", "Connecting">>, <<"Connecting", "Connected">>,
      <<"Connecting", "Backoff">>, <<"Connected", "Backoff">>,
      <<"Backoff", "Connecting">> }

\* C11: the connection moves only Disconnected -> Connecting -> Connected ->
\* Backoff -> Connecting (a failed attempt goes from Connecting to Backoff), or to
\* Disconnected once disconnect() has begun; a finished listen task stays finished;
\* when disconnect() has returned the listen task is finished and the connection
\* is not open, and from then on no reconnection is attempted and no tick or
\* ticker handler is invoked; and a disconnect() that has begun returns.
C11_Lifecycle ==
    /\ [][/\ Phase(listen_pc') # Phase(listen_pc) =>
                \/ <<Phase(listen_pc), Phase(listen_pc')>> \in LifecycleEdges
                   /\ listen_pc # "done"
                \/ listen_pc' = "done" /\ ~is_running
          /\ listen_pc = "done" => listen_pc' = "done"
          /\ disc_pc = "returned" =>
                /\ disc_pc' = "returned"
                /\ UNCHANGED <<listen_pc, is_running, slept, tick_calls, ticker_calls>>]_vars
    /\ [](disc_pc = "returned" =>
             listen_pc = "done" /\ ~is_running /\ websocket # "open")
    /\ (disc_pc # "idle" ~> disc_pc = "returned")

\* C11 witness: disconnect() has returned from a client that had handled a trade
\* and had reconnected after a backoff
C11_Witness ==
    /\ disc_pc = "returned"
    /\ listen_pc = "done"
    /\ websocket = "closed"
    /\ tick_calls # <<>>
    /\ slept # <<>>

\* C12: disconnect() releases the connection only after the read loop has been
\* cancelled and has terminated: while disconnect() is closing the connection the
\* listen task is finished.
C12_DisconnectOrder == disc_pc = "closing" => listen_pc = "done"

\* the texts of the feed that are numbers
Numeric(v) == v \in DOMAIN FloatText
NumberMs(v) == v \in DOMAIN MsSeconds

\* a trade event with every field _handle_trade needs, on the trade stream
WellFormedTrade(m) ==
    /\ m.json = "object"
    /\ m.stream \in {NoStream, "btcusdt@trade"}
    /\ m.data["e"] = "trade"
    /\ m.data["s"] # Absent
    /\ NumberMs(m.data["T"]) /\ Numeric(m.data["p"]) /\ Numeric(m.data["q"])

\* a 24h ticker event with every field _handle_ticker needs, on the ticker stream
WellFormedTicker(m) ==
    /\ m.json = "object"
    /\ m.stream \in {NoStream, "btcusdt@ticker"}
    /\ m.data["e"] = "24hrTicker"
    /\ m.data["s"] # Absent
    /\ NumberMs(m.data["E"])
    /\ \A k \in {"p", "P", "c", "o", "h", "l", "v", "q"} : Numeric(m.data[k])

\* C13: a running client that takes a message which is not a well-formed trade or
\* ticker event records no handler's effect (no handler call, no insert, the tick
\* buffers unchanged) and stays connected and ready for the next message; a
\* well-formed trade invokes the tick handler once, with the tick of the message,
\* and not the ticker handler; a well-formed ticker invokes the ticker handler once
\* and not the tick handler.
C13_MalformedDropped ==
    [][\A m \in Messages, db_ok \in BOOLEAN :
          (is_running /\ msg_log' # msg_log /\ ListenReceive(m, db_ok, 1)) =>
              IF WellFormedTrade(m)
              THEN /\ Len(tick_calls') = Len(tick_calls) + 1
                   /\ tick_calls'[Len(tick_calls')] =
                         [symbol |-> m.data["s"], price |-> FloatText[m.data["p"]],
                          qty |-> FloatText[m.data["q"]], ts |-> MsSeconds[m.data["T"]]]
                   /\ ticker_calls' = ticker_calls
              ELSE IF WellFormedTicker(m)
              THEN /\ Len(ticker_calls') = Len(ticker_calls) + 1
                   /\ tick_calls' = tick_calls
                   /\ tick_buffers' = tick_buffers
              ELSE /\ UNCHANGED <<tick_calls, ticker_calls, db_ticks, tick_buffers>>
                   /\ listen_pc' = "connected"
                   /\ websocket' = "open"
                   /\ is_running' /\ ~cancelled']_vars

\* C13 witness: a message was dropped, and the trade and the ticker that followed
\* it on the same connection were handled
C13_Witness ==
    /\ msg_log = <<"dropped", "trade", "ticker">>
    /\ Len(tick_calls) = 1
    /\ Len(ticker_calls) = 1
    /\ websocket = "open"

\* C16: the buffer of the symbol holds the latest ticks of the trade messages in
\* the order the connection delivered them, and the client takes a message only
\* when it has finished the handler, the broadcast included, of the one before.
C16_TickOrder ==
    /\ [](Get(tick_buffers, "BTCUSDT", <<>>) = LastN(trades_in, tick_buffer_size))
    /\ [][msg_log' # msg_log => listen_pc = "connected"]_vars

\* C16 witness: three trades arrived, the second unlike the first, a frontend
\* socket is connected, and the buffer holds the last two in their order
C16_Witness ==
    /\ Len(trades_in) = 3
    /\ trades_in[1] # trades_in[2]
    /\ trades_in[2] # trades_in[3]
    /\ frontend_connections # {}
    /\ Get(tick_buffers, "BTCUSDT", <<>>) = <<trades_in[2], trades_in[3]>>

\* C17: every trade message that parsed has one insert attempt and one tick handler
\* call, both with the tick of the message, whether or not the insert failed, and
\* the tick was added to the buffer.
C17_InsertBestEffort ==
    /\ Len(db_ticks) = Len(trades_in)
    /\ \A i \in DOMAIN db_ticks : db_ticks[i].tick = trades_in[i]
    /\ tick_calls = trades_in
    /\ added["BTCUSDT"] = trades_in

\* C17 witness: the insert of the latest trade failed and its tick is the newest of
\* the buffer, after a trade whose insert succeeded
C17_Witness ==
    /\ Len(db_ticks) = 2
    /\ db_ticks[1].ok /\ ~db_ticks[2].ok
    /\ LET buf == Get(tick_buffers, "BTCUSDT", <<>>)
       IN  buf # <<>> /\ buf[Len(buf)] = db_ticks[2].tick

-----------------------------------------------------------------------------
(* Stream manager *)

\* the clients of symbol S whose listen task is running
Streaming(S) == {c \in DOMAIN made : made[c].symbol = S /\ made[c].task = "running"}

\* C14: whatever subscribe and unsubscribe calls have run and however they
\* interleaved, at most one stream client of a normalized symbol is running and it
\* is the one the manager holds for the symbol; a subscribe to symbols that are all
\* active constructs no client and leaves the held ones as they are; and when an
\* unsubscribe(S) returns S is not an active symbol.
C14_OneClientPerSymbol ==
    /\ [](\A S \in Symbols :
             /\ Cardinality(Streaming(S)) <= 1
             /\ \A c \in Streaming(S) : S \in DOMAIN clients /\ clients[S] = c)
    /\ [][\A symbols \in SymbolLists :
             ( /\ SubscribeMultiple(symbols)
               /\ \A i \in DOMAIN symbols :
                     normalize_symbol(symbols[i]) \in ws_active_symbols(clients) ) =>
                 UNCHANGED <<clients, made>>]_vars
    /\ [][\A u \in Callers :
             UnsubscribeFinish(u) => unsub[u].symbol \notin ws_active_symbols(clients')]_vars

\* C15: when disconnect_all() has returned and no subscribe has constructed a client
\* since it began, no symbol is active and the listen task of every client that was
\* held when it began has ended.
C15_DisconnectAll ==
    (da.pc = "returned" /\ ~da.subscribed) =>
        /\ ws_active_symbols(clients) = {}
        /\ \A c \in da.held : made[c].task = "done"

-----------------------------------------------------------------------------
(* Alerts engine *)

\* whether a rule's operator holds between a value and the rule's threshold
Holds(operator, actual, threshold) ==
    /\ actual # NaN
    /\ CASE operator = ">" -> actual > threshold
         [] operator = "<" -> actual < threshold
         [] operator = ">=" -> actual >= threshold
         [] operator = "<=" -> actual <= threshold
         [] operator = "==" -> actual - threshold < Epsilon /\ threshold - actual < Epsilon
         [] OTHER -> FALSE

\* C18: when a monitoring pass evaluates a price rule on X, one notification is
\* appended to the history if and only if X's buffer is non-empty and the rule's
\* operator holds between X's latest tick price and the rule's threshold; the
\* notification carries that price as actual value and the threshold as threshold
\* value.  With an empty buffer nothing is appended, and whenever nothing is
\* appended the rule's trigger count and last-triggered time stay as they were.
C18_PriceRule ==
    [][(mon.pc = "checking" /\ mon.todo # <<>> /\ mon' # mon) =>
          LET alert == alerts[Head(mon.todo)]
              buf == Get(tick_buffers, normalize_symbol(alert.pair), <<>>)
              holds == buf # <<>> /\
                       Holds(alert.operator, buf[Len(buf)].price, alert.value)
              n == triggered_alerts'[Len(triggered_alerts')]
          IN  /\ alert.metric = "price" =>
                    /\ holds => /\ Len(triggered_alerts') = Len(triggered_alerts) + 1
                                /\ SubSeq(triggered_alerts', 1, Len(triggered_alerts)) =
                                      triggered_alerts
                                /\ n.alert_id = alert.id
                                /\ n.actual_value = buf[Len(buf)].price
                                /\ n.threshold_value = alert.value
                    /\ ~holds => triggered_alerts' = triggered_alerts
              /\ triggered_alerts' = triggered_alerts => alerts' = alerts]_vars

\* C18 witness: a rule price > 10 has triggered once on the latest price 20, and a
\* rule evaluated on an empty buffer is as it was added
C18_Witness ==
    /\ \E i \in DOMAIN triggered_alerts :
          LET n == triggered_alerts[i]
          IN  /\ n.actual_value = 20
              /\ n.threshold_value = 10
              /\ alerts[n.alert_id].operator = ">"
              /\ alerts[n.alert_id].metric = "price"
              /\ alerts[n.alert_id].trigger_count = 1
              /\ alerts[n.alert_id].triggered_at = n.ts
    /\ mon.ticks = 2

\* C19: when the first callback of a notification is called, the notification is
\* the last of the history and the rule's last-triggered time and trigger count are
\* updated; while the callbacks of a notification run, those called so far are the
\* registered ones in registration order, each once, each returned before the next
\* was called; and when the loop leaves the callbacks every registered callback has
\* been called exactly once.
C19_CallbackOrder ==
    /\ [][(mon.pc = "checking" /\ mon'.pc = "in_callback") =>
             LET n == mon'.notification
             IN  /\ triggered_alerts' # <<>>
                 /\ triggered_alerts'[Len(triggered_alerts')] = n
                 /\ alerts'[n.alert_id].triggered_at = n.ts
                 /\ alerts'[n.alert_id].trigger_count =
                       alerts[n.alert_id].trigger_count + 1
                 /\ Len(cb_log') = 1]_vars
    /\ [](mon.pc = "in_callback" =>
             /\ Len(cb_log) = mon.next_cb
             /\ Len(cb_log) <= Len(callbacks)
             /\ \A k \in DOMAIN cb_log :
                   /\ cb_log[k].cb = callbacks[k]
                   /\ cb_log[k].n = mon.notification.id
                   /\ k = Len(cb_log) => cb_log[k].outcome = "pending"
                   /\ k < Len(cb_log) => cb_log[k].outcome \in {"ok", "raise"})
    /\ [][(mon.pc = "in_callback" /\ mon'.pc = "checking") =>
             /\ Len(cb_log') = Len(callbacks)
             /\ \A k \in DOMAIN cb_log' :
                   /\ cb_log'[k].cb = callbacks[k]
                   /\ cb_log'[k].outcome \in {"ok", "raise"}]_vars

\* C19 witness: the two registered callbacks of a notification have been called in
\* registration order and have returned
C19_Witness ==
    /\ mon.pc = "checking"
    /\ callbacks = <<"broadcast_alert", "on_alert">>
    /\ Len(cb_log) = 2
    /\ cb_log[1].cb = "broadcast_alert" /\ cb_log[1].outcome = "ok"
    /\ cb_log[2].cb = "on_alert" /\ cb_log[2].outcome = "ok"
    /\ cb_log[1].tick = mon.ticks

\* the step in which the callback that was running raises
CallbackRaises ==
    /\ mon.pc = "in_callback"
    /\ Len(cb_log') >= mon.next_cb
    /\ cb_log'[mon.next_cb].outcome = "raise"

\* a callback has raised in the pass that is running
RaisedInPass ==
    /\ mon.pc \in {"in_callback", "checking"}
    /\ \E k \in DOMAIN cb_log : cb_log[k].outcome = "raise" /\ cb_log[k].tick = mon.ticks

\* C20: when a callback raises, the next registered callback is called just as
\* after a return, or after the last one the loop goes on to the remaining rules of
\* the pass, which are all still to be evaluated; monitoring stays on; and the pass
\* reaches its sleep unless monitoring is stopped.
C20_CallbackRaises ==
    /\ [][CallbackRaises =>
             /\ is_monitoring' = is_monitoring
             /\ mon'.todo = mon.todo
             /\ mon'.ticks = mon.ticks
             /\ triggered_alerts' = triggered_alerts
             /\ IF mon.next_cb < Len(callbacks)
                THEN /\ mon'.pc = "in_callback"
                     /\ mon'.next_cb = mon.next_cb + 1
                     /\ cb_log'[mon.next_cb + 1].cb = callbacks[mon.next_cb + 1]
                ELSE mon'.pc = "checking"]_vars
    /\ (RaisedInPass ~> mon.pc \in {"sleeping", "done"})

\* C20 witness: the first callback of rule 1's notification raised, the second was
\* called and returned, and the loop is about to evaluate rule 2 in the same pass
C20_Witness ==
    /\ mon.pc = "checking"
    /\ mon.todo = <<2>>
    /\ Len(cb_log) = 2
    /\ cb_log[1].outcome = "raise" /\ cb_log[1].alert_id = 1
    /\ cb_log[2].outcome = "ok"
    /\ cb_log[1].tick = mon.ticks

\* the number of notifications of rule id in a history
CountFor(hist, id) == Cardinality({i \in DOMAIN hist : hist[i].alert_id = id})

\* the notifications a step appends to the history
Appended ==
    IF Len(triggered_alerts') > Len(triggered_alerts)
    THEN SubSeq(triggered_alerts', Len(triggered_alerts) + 1, Len(triggered_alerts'))
    ELSE <<>>

\* C21: a rule starts with trigger count 0; in every step the count of every rule
\* grows by the number of notifications of that rule the step appends to the
\* history, which is 0 or 1, so it never decreases and is the number of
\* notifications ever appended for the rule; the notifications of the rule that
\* are in the history are at most that many, and exactly that many while nothing
\* has been cleared from the history.
C21_TriggerCount ==
    /\ [][\A id \in DOMAIN alerts' :
             /\ CountFor(Appended, id) <= 1
             /\ alerts'[id].trigger_count =
                   (IF id \in DOMAIN alerts THEN alerts[id].trigger_count ELSE 0) +
                   CountFor(Appended, id)]_vars
    /\ [](\A id \in DOMAIN alerts :
             /\ CountFor(triggered_alerts, id) <= alerts[id].trigger_count
             /\ mon.issued = Len(triggered_alerts) =>
                   CountFor(triggered_alerts, id) = alerts[id].trigger_count)

\* C21 witness: rule 1 has triggered twice and the history, cleared after the
\* first time, holds one notification of it
C21_Witness ==
    /\ Len(alerts) >= 1
    /\ alerts[1].trigger_count = 2
    /\ mon.issued = 2
    /\ Len(triggered_alerts) = 1
    /\ triggered_alerts[1].alert_id = 1

\* whether self.alerts holds a rule of this id
Listed(al, alert_id) == alert_id \in DOMAIN al /\ al[alert_id].listed

\* C22: remove_alert(id) returns true exactly when the table holds a rule of that
\* id; the call then takes that rule off the table and otherwise leaves the table
\* as it is; in both cases every other rule, the history and the callbacks are
\* unchanged.
C22_RemoveAlert ==
    /\ [](\A alert_id \in 1..MaxRules :
             remove_alert(alerts, alert_id).result = Listed(alerts, alert_id))
    /\ [][\A alert_id \in 1..MaxRules :
             (mon' = mon /\ RemoveAlert(alert_id)) =>
                /\ triggered_alerts' = triggered_alerts
                /\ callbacks' = callbacks
                /\ DOMAIN alerts' = DOMAIN alerts
                /\ \A j \in DOMAIN alerts :
                      /\ j # alert_id => alerts'[j] = alerts[j]
                      /\ Listed(alerts', j) = (Listed(alerts, j) /\ j # alert_id)
                /\ ~Listed(alerts, alert_id) => alerts' = alerts]_vars

\* C22 witness: one of two rules has been removed after the other triggered and a
\* callback was registered
C22_Witness ==
    /\ Len(alerts) = 2
    /\ ~alerts[1].listed
    /\ alerts[2].listed /\ alerts[2].trigger_count = 1
    /\ triggered_alerts # <<>>
    /\ callbacks # <<>>

\* C23: at most one monitoring task is not done; start_monitoring while the task
\* is not done changes nothing, and stop_monitoring while no task is running
\* changes nothing.
C23_OneLoopTask ==
    /\ [](mon.tasks <= 1)
    /\ [](mon.tasks = 0 <=> mon.pc \in {"idle", "done"})
    /\ [][(StartMonitoring /\ mon.tasks > 0) => mon' = [mon EXCEPT !.stopped = FALSE]]_vars
    /\ [][(StopMonitoring /\ mon.tasks = 0) =>
             /\ mon' = [mon EXCEPT !.stopped = TRUE]
             /\ is_monitoring' = is_monitoring
             /\ cb_log' = cb_log]_vars

\* C23 witness: after a first task ran a pass and was stopped, a second one has
\* been created and is the only one
C23_Witness ==
    /\ mon.pc = "created"
    /\ mon.tasks = 1
    /\ mon.ticks = 1
    /\ ~mon.stopped
    /\ triggered_alerts # <<>>

\* C24: once stop_monitoring has returned the task is done, and from then to the
\* next start_monitoring no step appends a notification, changes a rule's trigger
\* count or last-triggered time, or calls a callback.
C24_StoppedIsQuiet ==
    /\ [](mon.stopped => mon.pc \in {"idle", "done"} /\ mon.tasks = 0)
    /\ [][(mon.stopped /\ mon'.stopped) =>
             /\ Appended = <<>>
             /\ \A id \in DOMAIN alerts :
                   /\ alerts'[id].trigger_count = alerts[id].trigger_count
                   /\ alerts'[id].triggered_at = alerts[id].triggered_at
             /\ cb_log' = cb_log]_vars

\* C24 witness: monitoring was stopped after a pass in which a rule triggered, a
\* rule is still active and a tick has been added since
C24_Witness ==
    /\ mon.stopped
    /\ mon.pc = "done"
    /\ mon.ticks = 1
    /\ triggered_alerts # <<>>
    /\ ActiveIds(alerts) # {}
    /\ TotalAdds = MaxAlTicks

\* C25: when stop_monitoring is called while the loop is in a callback of a
\* notification, it returns with every registered callback called and returned for
\* that notification and every rule of the pass evaluated.
C25_StopWaitsForPass ==
    [][(mon.pc = "in_callback" /\ ~mon.stopped /\ mon'.stopped) =>
          /\ Len(cb_log') = Len(callbacks)
          /\ \A k \in DOMAIN cb_log' : cb_log'[k].outcome \in {"ok", "raise"}
          /\ Len(mon'.checked) = Cardinality(mon'.at_start)]_vars

\* C26: _evaluate_condition returns whether the operator holds between the actual
\* value and the threshold: ">", "<", ">=" and "<=" are the exact comparisons, "=="
\* holds exactly when the two are less than 1e-6 apart (equal values match, values
\* 1e-6 or 1e-5 apart do not), and with any other operator the result is false.
C26_EvaluateCondition ==
    ret.op = "_evaluate_condition" =>
       /\ ret.value = Holds(ret.operator, ret.actual, ret.threshold)
       /\ ret.operator \notin {">", "<", ">=", "<=", "=="} => ~ret.value
       /\ (ret.operator = "==" /\ ret.actual = ret.threshold) => ret.value
       /\ (ret.operator = "==" /\ ret.actual # NaN /\
           Abs(ret.actual - ret.threshold) \in {Epsilon, 10 * Epsilon}) => ~ret.value
       /\ (ret.operator = ">=" /\ ret.actual = ret.threshold) => ret.value
       /\ (ret.operator = ">" /\ ret.actual = ret.threshold) => ~ret.value

\* C26 witness: "==" matched on values 9e-7 apart
C26_Witness ==
    /\ ret.op = "_evaluate_condition"
    /\ ret.operator = "=="
    /\ ret.actual = 91
    /\ ret.threshold = 100
    /\ ret.value

\* C27: the list a call of get_triggered_alerts returned keeps its contents while
\* the caller does nothing with it, whatever is triggered or cleared afterwards;
\* and when the caller removes an element from it the engine's history is
\* unchanged.
C27_SnapshotCopy ==
    [][(ret.op = "get_triggered_alerts" /\ ret'.op = "get_triggered_alerts") =>
          /\ ret' = ret => ReturnedList' = ReturnedList
          /\ ret'.popped = ret.popped + 1 => triggered_alerts' = triggered_alerts]_vars

\* C29: compute_hedge_ratio on two series whose indexes share L timestamps returns
\* no point when L < 2 and otherwise L - min(W, L) + 1 points, the i-th with the
\* timestamp of the last row of the i-th window of the joined series.
C29_HedgeRatioLength ==
    ret.op = "compute_hedge_ratio" =>
       LET joined == SortedSeq(IndexOf(ret.prices_a) \cap IndexOf(ret.prices_b))
           L  == Len(joined)
           We == IF ret.window < L THEN ret.window ELSE L
       IN  IF L < 2 THEN ret.value = <<>>
           ELSE /\ Len(ret.value) = L - We + 1
                /\ \A i \in DOMAIN ret.value : ret.value[i].ts = joined[We + i - 1]

\* the rolling standard deviation of the spread under the z-score point of
\* timestamp t
StdUnder(t) ==
    LET spreads == compute_spread(ret.prices_a, ret.prices_b, ret.window, ret.method,
                                  ret.failing)
        values  == [k \in DOMAIN spreads |-> spreads[k].value]
        We      == IF ret.window < Len(spreads) THEN ret.window ELSE Len(spreads)
        i       == CHOOSE k \in DOMAIN spreads : spreads[k].ts = t
    IN  rolling_std(values, We, i)

\* C30: no point of the series compute_zscore returns lies over a rolling standard
\* deviation of the spread that is 0.
C30_NoZeroStdPoint ==
    ret.op = "compute_zscore" =>
       \A i \in DOMAIN ret.value : StdUnder(ret.value[i].ts) # 0

\* C28: in a pass the rules evaluated so far followed by the rules still to be
\* evaluated are the rules that were active when the pass began, each once, in
\* insertion order, and the pass reaches its sleep with all of them evaluated; the
\* evaluation of a rule, whatever comes of it, and the callbacks of its
\* notification, whether they return or raise, leave the rest of the list and the
\* other rules as they are.
C28_EachRuleOnce ==
    /\ [](mon.pc \in {"checking", "in_callback"} =>
             mon.checked \o mon.todo = SortedSeq(mon.at_start))
    /\ [](mon.pc = "sleeping" => mon.checked = SortedSeq(mon.at_start))
    /\ [][(mon.pc = "checking" /\ mon.todo # <<>> /\ mon' # mon) =>
             /\ mon'.todo = Tail(mon.todo)
             /\ mon'.checked = Append(mon.checked, Head(mon.todo))
             /\ \A j \in DOMAIN alerts : j # Head(mon.todo) => alerts'[j] = alerts[j]]_vars
    /\ [][(mon.pc = "in_callback" /\ mon'.pc \in {"in_callback", "checking"}) =>
             /\ mon'.todo = mon.todo
             /\ mon'.checked = mon.checked
             /\ alerts' = alerts]_vars

\* C28 witness: a pass took two rules; the first, on a metric that has no value,
\* did not trigger, the second triggered and its callback raised, and the pass is
\* at its sleep
C28_Witness ==
    /\ mon.pc = "sleeping"
    /\ mon.checked = <<1, 2>>
    /\ alerts[1].trigger_count = 0
    /\ alerts[2].trigger_count = 1
    /\ cb_log # <<>>
    /\ cb_log[1].outcome = "raise"
    /\ cb_log[1].tick = mon.ticks

(* Pair analytics *)

\* the spread series under the returned value of a call, and the number of
\* timestamps the two series of the call share with a value in both
SpreadsOfCall ==
    compute_spread(ret.prices_a, ret.prices_b, ret.window, ret.method, ret.failing)
AlignedLength == Len(aligned(ret.prices_a, ret.prices_b))

\* C31 as stated: with We = min(W, aligned length), the window of the hedge
\* ratio, compute_zscore on a spread series of n points returns at most
\* n - We + 1 points, none of them at one of the first We - 1 spread timestamps.
C31_SameWindow ==
    ret.op = "compute_zscore" =>
       LET spreads == SpreadsOfCall
           n  == Len(spreads)
           We == IF ret.window < AlignedLength THEN ret.window ELSE AlignedLength
       IN  /\ Len(ret.value) <= Max({0, n - We + 1})
           /\ \A i \in DOMAIN ret.value :
                 \A k \in DOMAIN spreads : k < We => ret.value[i].ts # spreads[k].ts

\* C31 amended: compute_zscore takes its window from its own input, Wz = min(W, n)
\* for a spread series of n points; it returns no point when n < 2, and otherwise
\* the points at the spread timestamps from the Wz-th on and no other, so the first
\* Wz - 1 spread points are omitted and at most n - Wz + 1 points are returned.
C31_ZscoreWindow ==
    ret.op = "compute_zscore" =>
       LET spreads == SpreadsOfCall
           n  == Len(spreads)
           Wz == IF ret.window < n THEN ret.window ELSE n
       IN  IF n < 2 THEN ret.value = <<>>
           ELSE /\ Len(ret.value) <= n - Wz + 1
                /\ \A i \in DOMAIN ret.value :
                      \E k \in Wz..n : ret.value[i].ts = spreads[k].ts
                /\ \A i, j \in DOMAIN ret.value :
                      i < j => ret.value[i].ts < ret.value[j].ts

\* C31 witness: four shared candles and a window of 3 give two spread points, and
\* compute_zscore returned the point of the second over a window of 2
C31_Witness ==
    /\ ret.op = "compute_zscore"
    /\ ret.window = 3
    /\ AlignedLength = 4
    /\ Len(SpreadsOfCall) = 2
    /\ Len(ret.value) = 1
    /\ ret.value[1].ts = SpreadsOfCall[2].ts

\* C32: compute_adf_test on a spread series of fewer than 20 points, the empty
\* series included, returns exactly {stat: 0.0, pvalue: 1.0} and does not run the
\* test.
C32_AdfNeutral ==
    (ret.op = "compute_adf_test" /\ Len(SpreadsOfCall) < 20) =>
        /\ ret.value.result = [stat |-> 0, pvalue |-> 100]
        /\ ~ret.value.ran

\* C32 witness: a call on 19 spread points, where the test would have returned a
\* statistic, returned the neutral result; and so did a call on no spread point
C32_Witness ==
    /\ ret.op = "compute_adf_test"
    /\ Len(SpreadsOfCall) = 19
    /\ ~ret.adf.raised
    /\ ret.value.result = [stat |-> 0, pvalue |-> 100]

\* C33: every failure of a computation during a call of compute_pair_analytics
\* yields a result with an error field: a result without one means that nothing
\* raised during the call.
C33_FailureTagged ==
    (ret.op = "compute_pair_analytics" /\ ret.raised # {}) =>
        "error" \in DOMAIN ret.value

\* the timestamps of a series of points
TimesOf(points) == {points[i].ts : i \in DOMAIN points}

\* C34: in a result of compute_pair_analytics that has the series, every hedge-ratio
\* timestamp is a timestamp of both price series; every spread point has the
\* timestamp of a hedge-ratio point and the value price_A - beta * price_B for the
\* prices and the ratio of that timestamp; every z-score timestamp is a spread
\* timestamp; and no value of the three series is null.
C34_TimeAligned ==
    (ret.op = "compute_pair_analytics" /\ "spread" \in DOMAIN ret.value) =>
       LET hr == ret.value.hedge_ratio
           sp == ret.value.spread
           zs == ret.value.zscore
       IN  /\ TimesOf(hr) \subseteq IndexOf(ret.prices_a) \cap IndexOf(ret.prices_b)
           /\ \A i \in DOMAIN sp :
                 \E j \in DOMAIN hr :
                    /\ hr[j].ts = sp[i].ts
                    /\ sp[i].value = ValueAt(ret.prices_a, sp[i].ts)
                                       - hr[j].value * ValueAt(ret.prices_b, sp[i].ts)
           /\ TimesOf(zs) \subseteq TimesOf(sp)
           /\ \A i \in DOMAIN hr : hr[i].value \notin {None, NaN}
           /\ \A i \in DOMAIN sp : sp[i].value \notin {None, NaN}
           /\ \A i \in DOMAIN zs : zs[i].value \notin {None, NaN}

\* C34 witness: the first series has a candle the second lacks, and the result has
\* two hedge ratios, two spread points and a z-score point
C34_Witness ==
    /\ ret.op = "compute_pair_analytics"
    /\ "spread" \in DOMAIN ret.value
    /\ IndexOf(ret.prices_a) \ IndexOf(ret.prices_b) # {}
    /\ Len(ret.value.hedge_ratio) = 2
    /\ Len(ret.value.spread) = 2
    /\ Len(ret.value.zscore) = 1

(* Analytics processor *)

\* C35: a pass in which no computation raises leaves, for every pair of symbols
\* that have buffered ticks, the analytics of the buffers as they are at the pass
\* as the latest result of the pair.
C35_PassStoresLatest ==
    [][(ap'.passes = ap.passes + 1 /\ ~ap'.raised) =>
          LET symbols == SortedSymbols(get_active_symbols(tick_buffers))
              pairs   == _generate_pairs(symbols)
          IN  \A k \in DOMAIN pairs :
                 /\ pairs[k] \in DOMAIN latest_results'
                 /\ latest_results'[pairs[k]].data =
                       pair_analytics_of(tick_buffers, ohlcv_cache, pairs[k], 60, "OLS",
                                         NoFault.adf, FALSE).result]_vars

(* Removal of a rule during a pass *)

\* C36: once remove_alert has removed a rule, no step appends a notification of
\* that rule to the history and no step calls a callback for a notification of it.
C36_RemovedIsSilent ==
    [][/\ \A i \in DOMAIN Appended : alerts[Appended[i].alert_id].listed
       /\ (/\ cb_log' # cb_log
           /\ cb_log' # <<>>
           /\ cb_log'[Len(cb_log')].outcome = "pending") =>
              alerts[cb_log'[Len(cb_log')].alert_id].listed]_vars

(* clear_buffer against a concurrent resample *)

\* C37: when no call of the DataManager is in progress and no tick of a symbol was
\* added since its buffer was last cleared, the cache holds no entry of the symbol:
\* an entry there would have been built from ticks the clear removed.
C37_NoStaleEntry ==
    \A S \in Symbols :
       (/\ \A t \in Threads : th[t].pc = "idle"
        /\ added[S] = <<>>) =>
           \A k \in DOMAIN ohlcv_cache : k[1] # S

(* The resampling cache between refreshes *)

\* the writers of the cache: get_ohlcv, get_price_series and the resample loop
CacheWriters == {"get_ohlcv", "get_price_series", "resample_loop"}

\* C38: add_tick leaves the cache as it is; an entry disappears only in a
\* clear_buffer; an entry is created or replaced only by get_ohlcv, get_price_series
\* or the resample loop, and never by a call without force_resample that finds the
\* entry: such a get_ohlcv leaves the whole cache alone and returns the candles of
\* the entry, filtered as the call asks, whatever the buffer holds by then.
C38_CacheFrame ==
    [][/\ ret'.op = "add_tick" => ohlcv_cache' = ohlcv_cache
       /\ \A k \in DOMAIN ohlcv_cache :
             k \notin DOMAIN ohlcv_cache' => ret'.op = "clear_buffer"
       /\ \A k \in DOMAIN ohlcv_cache' :
             (k \notin DOMAIN ohlcv_cache \/ ohlcv_cache'[k] # ohlcv_cache[k]) =>
                 ret'.op \in CacheWriters
       /\ ret'.op = "get_ohlcv" =>
             \A symbol \in Symbols, timeframe \in Timeframes, limit \in {None, 1},
                from_ts \in FromTss, to_ts \in ToTss :
                (/\ <<normalize_symbol(symbol), timeframe>> \in DOMAIN ohlcv_cache
                 /\ GetOhlcv(symbol, timeframe, limit, from_ts, to_ts, FALSE)) =>
                    /\ ohlcv_cache' = ohlcv_cache
                    /\ ret'.value =
                         filter_candles(ohlcv_cache[<<normalize_symbol(symbol), timeframe>>],
                                        limit, from_ts, to_ts)
       /\ ret'.op = "get_price_series" =>
             \A symbol \in Symbols, timeframe \in Timeframes, limit \in {None, 1} :
                (/\ <<normalize_symbol(symbol), timeframe>> \in DOMAIN ohlcv_cache
                 /\ GetPriceSeries(symbol, timeframe, limit, FALSE)) =>
                    ohlcv_cache' = ohlcv_cache]_vars

\* C38 witness: a get_ohlcv call returned the one candle of an entry that no
\* resample of the present buffer gives: the entry was written from the first
\* tick and the second tick was added afterwards
C38_Witness ==
    /\ ret.op = "get_ohlcv"
    /\ Len(Buffer("BTCUSDT")) = 2
    /\ <<"BTCUSDT", "1s">> \in DOMAIN ohlcv_cache
    /\ ret.value = ohlcv_cache[<<"BTCUSDT", "1s">>]
    /\ Len(ret.value) = 1
    /\ ret.value[1].volume = 1
    /\ \A from_ts \in FromTss, to_ts \in ToTss :
          ohlcv_cache[<<"BTCUSDT", "1s">>] #
             resample_to_ohlcv(ohlcv_source_ticks(tick_buffers, "BTCUSDT", from_ts, to_ts),
                               timeframe_to_pandas_rule("1s"))

(* Concurrent unsubscribe calls for one symbol *)

\* C39: an unsubscribe(S) that resumes after its await deletes the entry of S
\* without a KeyError, whatever other unsubscribe(S) calls ran while it was
\* suspended, and when it returns and no other unsubscribe(S) is still suspended,
\* S is not among the active symbols.
C39_ConcurrentUnsubscribe ==
    [][\A u \in Callers :
          UnsubscribeFinish(u) =>
             /\ ~del_raises(clients, unsub[u].symbol)
             /\ (\A v \in Callers \ {u} :
                    ~(unsub[v].pc = "awaiting" /\ unsub[v].symbol = unsub[u].symbol)) =>
                   unsub[u].symbol \notin ws_active_symbols(clients')]_vars

-----------------------------------------------------------------------------
(* resample_to_ohlcv on bounded inputs *)

MaxRsTicks == 3

RsPrices == {0, 1, 2}
RsQtys   == {1, 2}
RsTimes  == {0, 1, 60}
RsRules  == {"1s", "1min"}

RsTick == [symbol : {"BTCUSDT"}, price : RsPrices, qty : RsQtys, ts : RsTimes]

SeqsUpTo(S, n) == UNION {[1..k -> S] : k \in 0..n}

InitRS ==
    /\ rs_ticks \in SeqsUpTo(RsTick, MaxRsTicks)
    /\ rs_rule = "1s"
    /\ rs_out = <<>>
    /\ rs_done = FALSE
    /\ InitDM
    /\ InitWS
    /\ InitTh
    /\ InitHd
    /\ InitMg
    /\ InitAl
    /\ InitAp

RunResample(rule) ==
    /\ ~rs_done
    /\ rs_rule' = rule
    /\ rs_out' = resample_to_ohlcv(rs_ticks, rule)
    /\ rs_done' = TRUE
    /\ UNCHANGED <<rs_ticks, dmVars, wsVars, thVars, extVars>>

NextRS == \E rule \in RsRules : RunResample(rule)

SpecRS == InitRS /\ [][NextRS]_vars

\* IEEE 754 comparisons: false whenever an operand is NaN
FloatGe(a, b) == a # NaN /\ b # NaN /\ a >= b
FloatLe(a, b) == a # NaN /\ b # NaN /\ a <= b

\* the positions of the input ticks that fall in the bin starting at b
RsInBucket(b) == {i \in DOMAIN rs_ticks : Bucket(rs_ticks[i].ts, rs_rule) = b}

\* tick i is not later than tick j: by timestamp, ties by position in the input
RsNotLater(i, j) ==
    \/ rs_ticks[i].ts < rs_ticks[j].ts
    \/ rs_ticks[i].ts = rs_ticks[j].ts /\ i <= j

\* C6: for ticks whose prices are all non-zero, resample_to_ohlcv emits exactly
\* one candle for every bin of the timeframe that holds a tick and none for a bin
\* without ticks; the candle's open is the price of the bin's first tick (in time
\* order, ties by input order), high the maximum price, low the minimum price,
\* close the price of the last tick and volume the sum of the bin's quantities.
C6_OhlcvPerBucket ==
    (rs_done /\ \A i \in DOMAIN rs_ticks : rs_ticks[i].price # 0) =>
        /\ \A i \in DOMAIN rs_ticks :
             Cardinality({k \in DOMAIN rs_out :
                            rs_out[k].ts = Bucket(rs_ticks[i].ts, rs_rule)}) = 1
        /\ \A k \in DOMAIN rs_out :
             LET I     == RsInBucket(rs_out[k].ts)
                 first == CHOOSE i \in I : \A j \in I : RsNotLater(i, j)
                 last  == CHOOSE i \in I : \A j \in I : RsNotLater(j, i)
             IN  /\ I # {}
                 /\ rs_out[k].open = rs_ticks[first].price
                 /\ rs_out[k].close = rs_ticks[last].price
                 /\ \A i \in I : rs_out[k].high >= rs_ticks[i].price
                 /\ \E i \in I : rs_out[k].high = rs_ticks[i].price
                 /\ \A i \in I : rs_out[k].low <= rs_ticks[i].price
                 /\ \E i \in I : rs_out[k].low = rs_ticks[i].price
                 /\ rs_out[k].volume =
                      SumSeq([n \in 1..Cardinality(I) |-> rs_ticks[SortedSeq(I)[n]].qty])

\* C6 witness: two candles from three non-zero ticks, one bin holding two ticks
\* of different prices that arrived out of time order
C6_Witness ==
    /\ rs_done
    /\ \A i \in DOMAIN rs_ticks : rs_ticks[i].price # 0
    /\ Len(rs_ticks) = 3
    /\ Len(rs_out) = 2
    /\ rs_out[1].open # rs_out[1].close
    /\ rs_out[1].volume = 3
    /\ rs_ticks[1].ts > rs_ticks[2].ts

\* C7: every candle resample_to_ohlcv returns, for any ticks (a price of 0
\* included), has high >= max(open, close) and low <= min(open, close).
C7_PriceHierarchy ==
    rs_done =>
        \A k \in DOMAIN rs_out :
            /\ FloatGe(rs_out[k].high, rs_out[k].open)
            /\ FloatGe(rs_out[k].high, rs_out[k].close)
            /\ FloatLe(rs_out[k].low, rs_out[k].open)
            /\ FloatLe(rs_out[k].low, rs_out[k].close)

====
